---- MODULE Spec2Model ----
(***************************************************************************)
(* A model of the ReadyTensor repository assessor: the chunker of          *)
(* ContentBasedScorer, the retrying oracle client LLMClient, the per-file  *)
(* assessment tasks of the content strategy and the orchestration of the   *)
(* three category runners by RepositoryAnalyzer.                           *)
(*                                                                         *)
(* The module holds several specifications over one set of variables:      *)
(*   ChunkSpec   ContentBasedScorer._chunk_text, one loop step at a time   *)
(*   FairChunkSpec  the same, the loop's thread scheduled fairly           *)
(*   ClientSpec  LLMClient.invoke_structured, one attempt at a time        *)
(*   RunSpec     RepositoryAnalyzer.assess_repository: the three category  *)
(*               runners and the file tasks on their thread pools          *)
(*   FairRunSpec the same, every thread scheduled fairly                   *)
(*   AssessSpec  ContentBasedScorer._assess_file from its chunk loop on    *)
(*   AggSpec     RepositoryAnalyzer._aggregate_results, one call           *)
(*   DiscoverSpec ContentBasedScorer._get_assessable_files, one walk       *)
(*   LogicSpec   LogicBasedValidator.assess_repository, check by check     *)
(*   MainSpec    main, from the command line to the exit status            *)
(*   DocSpec     DocumentProcessor.chunk_text, one loop step at a time     *)
(*   FairDocSpec the same, the call's thread scheduled fairly              *)
(* Each specification leaves the variables of the others unchanged.        *)
(***************************************************************************)
EXTENDS Integers, Sequences, FiniteSets, TLC

\* ------------------------------------------------------------------ bounds

\* Longest text the chunker is run on (characters).
MaxTextLen == 24

\* Largest configured token_limit the chunker is run with.
MaxTokenLimit == 5

\* Chunks recorded per run of the chunker; the loop goes on beyond it, the
\* list just stops growing (the real list grows without bound).
MaxChunks == 6

\* ------------------------------------------------------------------ helpers

Min(a, b) == IF a < b THEN a ELSE b

Max(a, b) == IF a > b THEN a ELSE b

\* ------------------------------------------------------------------ chunker
\* ContentBasedScorer._chunk_text (src/core/scorer.py:104-115).

VARIABLES
    text,         \* the text being chunked: the character at offset i-1 is i
    token_limit,  \* self.token_limit
    start,        \* the loop's start offset
    chunks,       \* the chunks appended so far
    ct_pc         \* "test": at the while condition, "body": in the loop body,
                  \* "done": returned

chunkVars == <<text, token_limit, start, chunks, ct_pc>>

\* LLMClient.invoke_structured (src/llm/client.py:54-88), one call.
VARIABLES
    attempt,      \* the loop variable of "for attempt in range(max_retries)"
    cl_pc,        \* "call": about to make an attempt, "returned", "raised"
    cl_resps,     \* what the oracle answered to each attempt made so far
    cl_sleeps,    \* the durations of the time.sleep calls made so far
    cl_result,    \* the returned record (NoValue until the call returns)
    cl_error      \* the raised failure (NoValue until the call raises)

clientVars == <<attempt, cl_pc, cl_resps, cl_sleeps, cl_result, cl_error>>

\* RepositoryAnalyzer.assess_repository (src/core/analyzer.py:45-71) with its
\* three category tasks and the per-file tasks of the content strategy.
VARIABLES
    max_workers,  \* config["max_workers"], the size of both thread pools
    repo,         \* the acquired repository: the facts the logic checks read
    file_text,    \* path -> content of each assessable file of the repository
    an_pc,        \* the analyzer's thread: "clone", "collect_logic",
                  \* "collect_content", "collect_metadata", "aggregate",
                  \* "unwind" (leaving the with block on an exception),
                  \* "returned", "raised"
    an_results,   \* results: category -> mapping, for the categories collected
    an_report,    \* the returned report (NoValue before the return)
    an_error,     \* the exception the analyzer raised (NoValue if none)
    cat_pc,       \* category task -> "unsubmitted", "queued", "running",
                  \* "returned", "raised"
    cat_value,    \* category task -> its returned mapping or raised exception
    co_pc,        \* the content runner: "discover", "collect"
    co_results,   \* the content runner's results: path -> result
    co_order,     \* the paths of results in the order they were stored
    f_pc,         \* per-file task -> "unsubmitted", "queued", "load", "test",
                  \* "body", "call", "returned", "raised"
    f_start,      \* per-file task -> start of _chunk_text
    f_nchunks,    \* per-file task -> len(chunks), counted up to MaxChunks
    f_results,    \* per-file task -> chunk_results (the records appended)
    f_value       \* per-file task -> its returned result or raised exception

runVars == <<max_workers, repo, file_text, an_pc, an_results, an_report, an_error,
             cat_pc, cat_value, co_pc, co_results, co_order,
             f_pc, f_start, f_nchunks, f_results, f_value>>

\* ContentBasedScorer._assess_file (src/core/scorer.py:64-86), the scoring of
\* one document's chunks with the explanations of the records kept.
VARIABLES
    as_pc,         \* "loop": in the loop over the chunks, "returned", "raised"
    as_nchunks,    \* len(chunks)
    chunk_results, \* the records appended so far
    as_calls,      \* the chunks (by index) invoke_structured was called for
    as_value       \* the returned result or the raised exception

assessVars == <<as_pc, as_nchunks, chunk_results, as_calls, as_value>>

\* RepositoryAnalyzer._aggregate_results (src/core/analyzer.py:88-116), one
\* call.
VARIABLES
    ag_pc,         \* "call": entered, "returned"
    ag_results,    \* the parameter results: category -> mapping
    ag_report      \* the returned report

aggVars == <<ag_pc, ag_results, ag_report>>

\* ContentBasedScorer._get_assessable_files (src/core/scorer.py:43-54), one
\* call.
VARIABLES
    ds_pc,         \* "call": entered, "returned", "raised"
    ds_tree,       \* the files under repo_path, in the order os.walk yields them
    ds_files       \* the returned list of paths

discoverVars == <<ds_pc, ds_tree, ds_files>>

\* LogicBasedValidator.assess_repository (src/core/validators.py:26-44), one
\* call.
VARIABLES
    lg_pc,         \* "loop": in the loop over the scoring methods, "returned"
    lg_tree,       \* the facts of the repository the checks read
    lg_next,       \* the position of the next scoring method
    lg_raised,     \* the ids of the checks that raised
    lg_results     \* results

logicVars == <<lg_pc, lg_tree, lg_next, lg_raised, lg_results>>

\* main (src/main.py:71-143), one run of the command.
VARIABLES
    mn_pc,         \* "args", "env", "validate", "build", "assess", "exited"
    mn_in,         \* the command line and the environment of the run
    mn_status,     \* the exit status (NoValue while running)
    mn_log         \* what the run did so far, in order

mainVars == <<mn_pc, mn_in, mn_status, mn_log>>

\* DocumentProcessor.chunk_text (src/utils/document_processor.py:157-189),
\* one call.
VARIABLES
    dp_pc,         \* "call", "test", "body", "filter", "returned"
    dp_text,       \* text
    dp_chunk_size, \* chunk_size
    dp_overlap,    \* overlap
    dp_start,      \* start
    dp_chunks,     \* chunks: each with the offset it was cut at
    dp_value       \* [chunks |-> the returned list] (NoValue before the return)

docVars ==
    <<dp_pc, dp_text, dp_chunk_size, dp_overlap, dp_start, dp_chunks, dp_value>>

fsVars == <<discoverVars, logicVars, mainVars, docVars>>

unitVars == <<assessVars, aggVars, fsVars>>

vars == <<chunkVars, clientVars, runVars, unitVars>>

\* The value of a variable that holds nothing (Python's unset name or None).
NoValue == [none |-> TRUE]

\* A raised exception, e telling its kind.
Raised(e) == [exception |-> e]

\* The empty dict.
EmptyMap == [k \in {} |-> NoValue]

\* A text of n characters; each character is tagged with its position, so that
\* a chunk shows which offsets it holds.
TextOfLen(n) == [i \in 1..n |-> i]

\* approx_char_limit = int(self.token_limit * 4)
ApproxCharLimit(tl) == tl * 4

\* overlap_chars = int(approx_char_limit * 0.1); the limit is a multiple of 4,
\* for which the float product truncates to the integer quotient.
OverlapChars(tl) == ApproxCharLimit(tl) \div 10

\* end = min(start + approx_char_limit, len(text))
ChunkEnd(st, tl, n) == Min(st + ApproxCharLimit(tl), n)

\* start = end - overlap_chars
NextStartSkipping(end, tl) == end + 1

NextStart(end, tl) == end - OverlapChars(tl)

\* Python's slice index normalisation: a negative index counts from the end,
\* and the result is clamped to [0, n].
PyIndex(i, n) == IF i < 0 THEN Max(i + n, 0) ELSE Min(i, n)

\* text[a:b]
PySlice(s, a, b) ==
    LET lo == PyIndex(a, Len(s))
        hi == PyIndex(b, Len(s))
    IN  IF lo < hi THEN SubSeq(s, lo + 1, hi) ELSE <<>>

\* The chunker before any call of it.
ChunkIdle ==
    /\ text = <<>>
    /\ token_limit = 1
    /\ start = 0
    /\ chunks = <<>>
    /\ ct_pc = "idle"

\* The client before any call of it.
ClientIdle ==
    /\ attempt = 0
    /\ cl_pc = "idle"
    /\ cl_resps = <<>>
    /\ cl_sleeps = <<>>
    /\ cl_result = NoValue
    /\ cl_error = NoValue

\* The analyzer before any run of it.
RunIdle ==
    /\ max_workers = 1
    /\ repo = NoValue
    /\ file_text = <<>>
    /\ an_pc = "idle"
    /\ an_results = EmptyMap
    /\ an_report = NoValue
    /\ an_error = NoValue
    /\ cat_pc = <<>>
    /\ cat_value = <<>>
    /\ co_pc = "idle"
    /\ co_results = EmptyMap
    /\ co_order = <<>>
    /\ f_pc = <<>>
    /\ f_start = <<>>
    /\ f_nchunks = <<>>
    /\ f_results = <<>>
    /\ f_value = <<>>

\* _get_assessable_files before any call of it.
DiscoverIdle ==
    /\ ds_pc = "idle"
    /\ ds_tree = <<>>
    /\ ds_files = <<>>

\* LogicBasedValidator.assess_repository before any call of it.
LogicIdle ==
    /\ lg_pc = "idle"
    /\ lg_tree = NoValue
    /\ lg_next = 1
    /\ lg_raised = {}
    /\ lg_results = EmptyMap

\* main before it is started.
MainIdle ==
    /\ mn_pc = "idle"
    /\ mn_in = NoValue
    /\ mn_status = NoValue
    /\ mn_log = <<>>

\* DocumentProcessor.chunk_text before any call of it.
DocIdle ==
    /\ dp_pc = "idle"
    /\ dp_text = <<>>
    /\ dp_chunk_size = 1
    /\ dp_overlap = 0
    /\ dp_start = 0
    /\ dp_chunks = <<>>
    /\ dp_value = NoValue

\* File discovery, the logic validator, main and the document processor
\* before any call of them.
FsIdle == DiscoverIdle /\ LogicIdle /\ MainIdle /\ DocIdle

\* _assess_file before any call of it.
AssessIdle ==
    /\ as_pc = "idle"
    /\ as_nchunks = 0
    /\ chunk_results = <<>>
    /\ as_calls = <<>>
    /\ as_value = NoValue

\* _aggregate_results before any call of it.
AggIdle ==
    /\ ag_pc = "idle"
    /\ ag_results = EmptyMap
    /\ ag_report = NoValue

\* Every unit outside the run before any call of it.
UnitIdle == FsIdle /\ AssessIdle /\ AggIdle

\* The other specifications' variables, which the chunker leaves alone.
ChunkFrame == UNCHANGED <<clientVars, runVars, unitVars>>

ChunkStart ==
    /\ text \in {TextOfLen(n) : n \in 0..MaxTextLen}
    /\ token_limit \in 1..MaxTokenLimit
    /\ start = 0
    /\ chunks = <<>>
    /\ ct_pc = "test"

\* while start < len(text):
ChunkTest ==
    /\ ct_pc = "test"
    /\ ct_pc' = IF start < Len(text) THEN "body" ELSE "done"
    /\ UNCHANGED <<text, token_limit, start, chunks>>
    /\ ChunkFrame

\* end = min(...); chunks.append(text[start:end]); start = end - overlap_chars
ChunkBody ==
    /\ ct_pc = "body"
    /\ LET end == ChunkEnd(start, token_limit, Len(text))
       IN  /\ chunks' = IF Len(chunks) < MaxChunks
                        THEN Append(chunks, PySlice(text, start, end))
                        ELSE chunks
           /\ start' = NextStart(end, token_limit)
    /\ ct_pc' = "test"
    /\ UNCHANGED <<text, token_limit>>
    /\ ChunkFrame

ChunkInit == ChunkStart /\ ClientIdle /\ RunIdle /\ UnitIdle

ChunkNext == ChunkTest \/ ChunkBody

ChunkSpec == ChunkInit /\ [][ChunkNext]_vars

\* The loop is run by one thread, which keeps taking steps.
FairChunkSpec == ChunkSpec /\ WF_vars(ChunkNext)

\* ------------------------------------------------- claims about the chunker

\* The offsets of the text that chunk c holds.
Offsets(c) == {c[i] - 1 : i \in DOMAIN c}

\* Some appended chunk holds the last character of the text.
ReachedEnd == \E k \in DOMAIN chunks : (Len(text) - 1) \in Offsets(chunks[k])

\* C1: for every text and every token_limit >= 1 _chunk_text terminates: the
\* walk reaches its return.
C1_ChunkTextTerminates == <>(ct_pc = "done")

\* C2: for every non-empty text the chunks form a cover: once the walk has
\* returned, or has appended a chunk that reaches the end of the text, every
\* offset in [0, len(text)) lies in at least one chunk.
C2_ChunksCoverText ==
    (Len(text) > 0 /\ (ct_pc = "done" \/ ReachedEnd))
        => \A off \in 0..(Len(text) - 1) :
               \E k \in DOMAIN chunks : off \in Offsets(chunks[k])

\* A returned walk over a text longer than the budget, with several chunks.
C2_Witness ==
    /\ ct_pc = "done"
    /\ Len(text) > ApproxCharLimit(token_limit)
    /\ Len(chunks) >= 3

\* C3: on every loop iteration the new start is strictly greater than the
\* start of the chunk just produced.
C3_StartStrictlyIncreasing == [][ct_pc = "body" => start' > start]_vars

\* C4: a non-empty text no longer than the character budget yields exactly one
\* chunk, the whole text: no second chunk is ever appended, and the returned
\* list is <<text>>.
C4_SingleChunk ==
    (Len(text) > 0 /\ Len(text) <= ApproxCharLimit(token_limit))
        => /\ Len(chunks) <= 1
           /\ ct_pc = "done" => chunks = <<text>>

\* The text is exactly twice the character budget long.
TwiceBudget == Len(text) = 2 * ApproxCharLimit(token_limit)

\* C19: a text exactly twice the character budget long yields exactly 2
\* chunks, and the region the two chunks share has int(0.1 x budget)
\* characters: no third chunk is ever appended, and the returned list has two
\* chunks sharing that many offsets.
C19_TwiceBudgetTwoChunks ==
    TwiceBudget
        => /\ Len(chunks) <= 2
           /\ ct_pc = "done"
                  => /\ Len(chunks) = 2
                     /\ Cardinality(Offsets(chunks[1]) \cap Offsets(chunks[2]))
                            = OverlapChars(token_limit)

\* C34: every chunk the loop appends is a non-empty contiguous slice
\* text[start:end] of the document, for the loop's start and end, with
\* 0 <= start < end <= len(text) and end - start at most the character
\* budget 4 x token_limit.
C34_ChunkIsSliceWithinBudget ==
    [][(ct_pc = "body" /\ Len(chunks) < MaxChunks) =>
          LET end == Min(start + 4 * token_limit, Len(text))
              chunk == chunks'[Len(chunks')]
          IN  /\ 0 <= start
              /\ start < end
              /\ end <= Len(text)
              /\ end - start <= 4 * token_limit
              /\ chunk # <<>>
              /\ chunk = [i \in 1..(end - start) |-> text[start + i]]]_vars

\* ------------------------------------------------------------ oracle client
\* LLMClient.invoke_structured (src/llm/client.py:54-88) with the response
\* model CriterionResponse (src/llm/parsers.py:9-15).

\* max_retries = 3
max_retries == 3

\* Scores the oracle may put into a JSON answer: valid ones and ones outside
\* the schema's range.
RawScores == {-1, 0, 60, 100, 101}

\* What one chat.completions.create call can give:
\*   error/transient  the call raises (network, timeout, rate limit)
\*   error/fatal      the call raises a non-retryable failure (bad credentials)
\*   empty            the answer's content is empty
\*   text             the content is not JSON
\*   json             the content is a JSON object with the given score
OracleResponses ==
    {[kind |-> "error", err |-> e] : e \in {"transient", "fatal"}}
        \cup {[kind |-> "empty"], [kind |-> "text"]}
        \cup {[kind |-> "json", score |-> s] : s \in RawScores}

TransientError == [kind |-> "error", err |-> "transient"]

\* score: int = Field(ge=0, le=100)
ScoreUnchecked(s) == TRUE

ScoreInRange(s) == s >= 0 /\ s <= 100

\* response_model(**result_json) succeeds.
ValidatesAnyJson(r) == r.kind = "json"

Validates(r) == r.kind = "json" /\ ScoreInRange(r.score)

\* validated.model_dump(): the fields of the validated answer
ModelDump(r) == [k \in (DOMAIN r) \ {"kind"} |-> r[k]]

\* The branch of the try statement an answer ends in: "return", the handler of
\* json.JSONDecodeError, or the handler of Exception (which also takes the
\* ValueError of an empty answer and pydantic's ValidationError).
Branch(r) ==
    IF Validates(r) THEN "return"
    ELSE IF r.kind = "text" THEN "json_decode_error"
    ELSE "exception"

\* The exception the handler of Exception re-raises on the last attempt.
ExceptionOf(r) ==
    IF r.kind = "error" THEN r.err
    ELSE IF r.kind = "empty" THEN "empty_response"
    ELSE "validation_error"

\* if attempt == max_retries - 1
IsLastAttemptOffByOne(a) == a = max_retries

IsLastAttempt(a) == a = max_retries - 1

\* for attempt in range(max_retries): where control is after an attempt that
\* neither returned nor raised.  Past the last value of the range the function
\* falls off its end, which returns None.
AfterAttempt(a) == IF a + 1 < max_retries THEN "call" ELSE "returned"

\* 2 ** attempt
RECURSIVE Pow2(_)
Pow2(n) == IF n = 0 THEN 1 ELSE 2 * Pow2(n - 1)

\* time.sleep(2 ** attempt)
BackoffConstant(a) == 1

Backoff(a) == Pow2(a)

\* The failure the call ends with when attempt a, answered r, is the last one.
RaisedBy(r) ==
    IF Branch(r) = "json_decode_error" THEN "json_parse_failed"
    ELSE ExceptionOf(r)

\* The whole call as a function of the answers rs[1], rs[2], ... the oracle
\* gives to the successive attempts, from attempt a on: what the caller gets.
RECURSIVE InvokeFrom(_, _)
InvokeFrom(a, rs) ==
    LET r == rs[a + 1]
    IN  IF Branch(r) = "return"
        THEN [kind |-> "return", value |-> ModelDump(r)]
        ELSE IF IsLastAttempt(a)
        THEN [kind |-> "raise", error |-> RaisedBy(r)]
        ELSE IF AfterAttempt(a) = "call"
        THEN InvokeFrom(a + 1, rs)
        ELSE [kind |-> "return", value |-> NoValue]

\* invoke_structured(prompt, CriterionResponse)
InvokeStructured(rs) == InvokeFrom(0, rs)

\* What a caller can get from one call when the oracle answers from the set
\* responses.
ClientOutcomes(responses) ==
    {InvokeStructured(rs) : rs \in [1..max_retries -> responses]}

\* The other specifications' variables, which the client leaves alone.
ClientFrame == UNCHANGED <<chunkVars, runVars, unitVars>>

ClientStart ==
    /\ attempt = 0
    /\ cl_pc = "call"
    /\ cl_resps = <<>>
    /\ cl_sleeps = <<>>
    /\ cl_result = NoValue
    /\ cl_error = NoValue

\* An attempt whose answer parses and validates: return validated.model_dump()
AttemptReturns ==
    /\ cl_pc = "call"
    /\ \E r \in OracleResponses :
        /\ Branch(r) = "return"
        /\ cl_resps' = Append(cl_resps, r)
        /\ cl_result' = ModelDump(r)
    /\ cl_pc' = "returned"
    /\ UNCHANGED <<attempt, cl_sleeps, cl_error>>
    /\ ClientFrame

\* An attempt whose content is not JSON: except json.JSONDecodeError.  On the
\* last attempt a ValueError is raised; otherwise the loop goes on at once.
AttemptJSONDecodeError ==
    /\ cl_pc = "call"
    /\ \E r \in OracleResponses :
        /\ Branch(r) = "json_decode_error"
        /\ cl_resps' = Append(cl_resps, r)
    /\ IF IsLastAttempt(attempt)
       THEN /\ cl_pc' = "raised"
            /\ cl_error' = Raised(RaisedBy(cl_resps'[Len(cl_resps')]))
            /\ UNCHANGED attempt
       ELSE /\ attempt' = attempt + 1
            /\ cl_pc' = AfterAttempt(attempt)
            /\ UNCHANGED cl_error
    /\ UNCHANGED <<cl_sleeps, cl_result>>
    /\ ClientFrame

\* An attempt that raises anything else: except Exception.  On the last
\* attempt the exception is re-raised; otherwise the thread sleeps 2 ** attempt
\* and the loop goes on.
AttemptException ==
    /\ cl_pc = "call"
    /\ \E r \in OracleResponses :
        /\ Branch(r) = "exception"
        /\ cl_resps' = Append(cl_resps, r)
        /\ IF IsLastAttempt(attempt)
           THEN /\ cl_pc' = "raised"
                /\ cl_error' = Raised(RaisedBy(r))
                /\ UNCHANGED <<attempt, cl_sleeps>>
           ELSE /\ cl_sleeps' = Append(cl_sleeps, Backoff(attempt))
                /\ attempt' = attempt + 1
                /\ cl_pc' = AfterAttempt(attempt)
                /\ UNCHANGED cl_error
    /\ UNCHANGED cl_result
    /\ ClientFrame

ClientInit == ClientStart /\ ChunkIdle /\ RunIdle /\ UnitIdle

ClientNext == AttemptReturns \/ AttemptJSONDecodeError \/ AttemptException

ClientSpec == ClientInit /\ [][ClientNext]_vars

\* --------------------------------------------------- claims about the client

\* Every attempt made so far failed transiently.
AllTransient == \A i \in DOMAIN cl_resps : cl_resps[i] = TransientError

\* C9: if every attempt of one invoke_structured call fails transiently,
\* exactly 3 attempts are made and then the failure is raised: never a fourth
\* attempt, never a returned value, and the call is over exactly when the third
\* attempt has failed.
C9_ThreeAttemptsThenRaise ==
    AllTransient =>
        /\ Len(cl_resps) <= 3
        /\ cl_pc # "returned"
        /\ cl_result = NoValue
        /\ (cl_pc = "raised") <=> (Len(cl_resps) = 3)
        /\ (cl_pc = "raised") => (cl_error = Raised("transient"))

\* Three transient failures in a row, after which the call has raised.
C9_Witness ==
    /\ AllTransient
    /\ Len(cl_resps) = 3
    /\ cl_pc = "raised"
    /\ cl_sleeps = <<1, 2>>

\* The attempt made in this step was answered by a transient failure.
TransientAttempt ==
    /\ cl_pc = "call"
    /\ Len(cl_resps') = Len(cl_resps) + 1
    /\ cl_resps'[Len(cl_resps')] = TransientError

\* C16: after a transient failure of attempt 0 the client waits 1 second and
\* after one of attempt 1 it waits 2 seconds, then makes the next attempt;
\* after a transient failure of the third attempt it does not wait.
C16_BackoffAfterTransient ==
    [][TransientAttempt =>
           IF attempt = 0
           THEN cl_sleeps' = Append(cl_sleeps, 1) /\ cl_pc' = "call"
           ELSE IF attempt = 1
           THEN cl_sleeps' = Append(cl_sleeps, 2) /\ cl_pc' = "call"
           ELSE cl_sleeps' = cl_sleeps /\ cl_pc' = "raised"]_vars

\* A call whose first answer was not JSON (no wait) and whose second and third
\* attempts failed transiently: one wait of 2 seconds, none after the third.
C16_Witness ==
    /\ Len(cl_resps) = 3
    /\ cl_resps[1] = [kind |-> "text"]
    /\ cl_resps[2] = TransientError
    /\ cl_resps[3] = TransientError
    /\ cl_pc = "raised"
    /\ cl_sleeps = <<2>>

\* A malformed answer: content that is not JSON, or JSON that fails the
\* schema.
Malformed(r) ==
    \/ r.kind = "text"
    \/ r.kind = "json" /\ ~ScoreInRange(r.score)

\* Every attempt made so far was answered by a malformed response.
AllMalformed == \A i \in DOMAIN cl_resps : Malformed(cl_resps[i])

\* C17: malformed responses are retried like transient failures: at most 3
\* attempts, a wait of 1 second after the first and of 2 seconds after the
\* second malformed response, and after the third the failure is raised.
C17_MalformedRetriedLikeTransient ==
    AllMalformed =>
        /\ Len(cl_resps) <= 3
        /\ cl_pc # "returned"
        /\ (cl_pc = "raised") <=> (Len(cl_resps) = 3)
        /\ cl_sleeps = SubSeq(<<1, 2>>, 1, Min(Len(cl_resps), 2))

FatalError == [kind |-> "error", err |-> "fatal"]

\* C18: a fatal failure is not retried: when the first attempt fails fatally
\* the call is over after that one attempt, the failure is raised to the
\* caller and no wait was made.
C18_FatalNotRetried ==
    (cl_resps # <<>> /\ cl_resps[1] = FatalError)
        => /\ Len(cl_resps) = 1
           /\ cl_pc = "raised"
           /\ cl_error = Raised("fatal")
           /\ cl_sleeps = <<>>

\* The answer is a JSON object that satisfies the schema of the record.
PassesSchema(r) == r.kind = "json" /\ r.score \in 0..100

\* C32: a call of invoke_structured ends in one of two ways.  It returns the
\* record of the answer to its last attempt, which passed schema validation;
\* or it raises, and then exactly three attempts were made and all of them
\* failed.  It never returns without a record and never returns a record
\* that did not pass validation, and it ends by the third attempt at the
\* latest.
C32_ValidatedRecordOrRaise ==
    /\ cl_pc \in {"call", "returned", "raised"}
    /\ Len(cl_resps) <= 3
    /\ cl_pc = "call" => Len(cl_resps) < 3 /\ cl_result = NoValue
    /\ cl_pc = "returned" =>
           /\ cl_result # NoValue
           /\ cl_error = NoValue
           /\ PassesSchema(cl_resps[Len(cl_resps)])
           /\ cl_result = [score |-> cl_resps[Len(cl_resps)].score]
    /\ cl_pc = "raised" =>
           /\ cl_result = NoValue
           /\ cl_error # NoValue
           /\ Len(cl_resps) = 3
           /\ \A i \in DOMAIN cl_resps : ~PassesSchema(cl_resps[i])

\* A malformed answer, then a transient failure, then an answer that fails
\* the schema: the call raised after the third attempt.
C32_Witness ==
    /\ cl_pc = "raised"
    /\ Len(cl_resps) = 3
    /\ cl_resps[1] = [kind |-> "text"]
    /\ cl_resps[2] = TransientError
    /\ cl_resps[3] = [kind |-> "json", score |-> 101]
    /\ cl_result = NoValue

\* ------------------------------------------------------------------ numbers
\* Scores are Python numbers; a mean need not be an integer, so a number is
\* kept as a reduced fraction [num, den].

\* The greatest common divisor.
GCD[a \in Nat, b \in Nat] == IF b = 0 THEN a ELSE GCD[b, a % b]

\* The fraction n / d, reduced.
Rat[n \in Nat, d \in Nat] ==
    IF n = 0 THEN [num |-> 0, den |-> 1]
    ELSE [num |-> n \div GCD[n, d], den |-> d \div GCD[n, d]]

Rats == [num : Nat, den : Nat]

\* The integer i as a number.
Num(i) == Rat[i, 1]

\* a + b
RatAdd[a \in Rats, b \in Rats] ==
    Rat[a.num * b.den + b.num * a.den, a.den * b.den]

\* a / n for an integer n > 0
RatDiv[a \in Rats, n \in Nat] == Rat[a.num, a.den * n]

\* ------------------------------------------------------------ logic checks
\* LogicBasedValidator (src/core/validators.py).  A repository is the record
\* of the facts the checks read: whether a README / a license file exists,
\* the number of .py files over 500 lines, and the total size in MiB.

ReadmePresence(rp) == [score |-> Num(IF rp.readme THEN 100 ELSE 0)]

LicensePresence(rp) == [score |-> Num(IF rp.license THEN 100 ELSE 0)]

ScriptLength(rp) ==
    [score |-> Num(IF rp.long_files = 0 THEN 100
                   ELSE Max(0, 100 - rp.long_files * 20))]

RepositorySizeInclusive(rp) ==
    [score |-> Num(IF rp.size_mb <= 100 THEN 100
                   ELSE IF rp.size_mb <= 500 THEN 70 ELSE 30)]

RepositorySize(rp) ==
    [score |-> Num(IF rp.size_mb < 100 THEN 100
                   ELSE IF rp.size_mb < 500 THEN 70 ELSE 30)]

\* LogicBasedValidator.assess_repository: every method marked as a scoring
\* function, keyed by its name.
LogicAssess(rp) ==
    [license_presence |-> LicensePresence(rp),
     readme_presence  |-> ReadmePresence(rp),
     repository_size  |-> RepositorySize(rp),
     script_length    |-> ScriptLength(rp)]

\* ---------------------------------------------------------------- the run

\* The category tasks in the order the analyzer submits them.
CatOrder == <<"logic", "content", "metadata">>

Cats == {CatOrder[i] : i \in DOMAIN CatOrder}

\* The assessable files of the repository, in the order _get_assessable_files
\* lists them.
FileOrder == <<"a.py", "b.md">>

Files == {FileOrder[i] : i \in DOMAIN FileOrder}

\* A text of n characters ch.
Chars(n, ch) == [i \in 1..n |-> ch]

\* Contents a file may have: whitespace only, shorter than one chunk budget
\* of token_limit 1, longer than it.
RunTexts == {Chars(1, " "), Chars(3, "x"), Chars(6, "x")}

\* token_limit values of a run: one without overlap (4 characters per chunk,
\* overlap 0) and one with (12 characters per chunk, overlap 1).
RunTokenLimits == {1, 3}

\* Largest pool size of a run.
MaxWorkers == 2

\* Repositories of a run.
RunRepos ==
    {[readme |-> TRUE, license |-> TRUE, long_files |-> 0, size_mb |-> 1],
     [readme |-> FALSE, license |-> TRUE, long_files |-> 6, size_mb |-> 600]}

\* Answers of the oracle in a run.
RunResponses ==
    {TransientError, [kind |-> "json", score |-> 60],
     [kind |-> "json", score |-> 100]}

\* What a call of invoke_structured can give its caller in a run.
RunOutcomes == ClientOutcomes(RunResponses)

\* The whitespace characters of the texts of the model.
Whitespace == {" ", "\n", "\t"}

\* str.strip(): the text without its leading and trailing whitespace.
RECURSIVE LStrip(_)
LStrip(t) ==
    IF t # <<>> /\ Head(t) \in Whitespace THEN LStrip(Tail(t)) ELSE t

RECURSIVE RStrip(_)
RStrip(t) ==
    IF t # <<>> /\ t[Len(t)] \in Whitespace
    THEN RStrip(SubSeq(t, 1, Len(t) - 1))
    ELSE t

NoStrip(t) == t

Strip(t) == RStrip(LStrip(t))

\* The position of x in the sequence order.
IndexIn(order, x) == CHOOSE i \in DOMAIN order : order[i] = x

\* ThreadPoolExecutor: a queued task starts when it is the first of the queue
\* (tasks are taken in submission order) and a worker is free.
PoolFree(busy) == Cardinality(busy) < max_workers

FirstQueued(order, pc, x) ==
    /\ pc[x] = "queued"
    /\ \A i \in DOMAIN order : i < IndexIn(order, x) => pc[order[i]] # "queued"

\* The category tasks holding a worker of the analyzer's pool.
CatsRunning == {c \in Cats : cat_pc[c] = "running"}

\* The category tasks that are over.
CatsDone == {c \in Cats : cat_pc[c] \in {"returned", "raised"}}

\* The per-file tasks holding a worker of the content runner's pool.
FilesRunning == {f \in Files : f_pc[f] \in {"load", "test", "body", "call"}}

\* The per-file tasks that are over.
FilesDone == {f \in Files : f_pc[f] \in {"returned", "raised"}}

\* A placeholder that drops the reason: {"score": 0}.
ErrorPlaceholderNoReason(e) == [score |-> Num(0)]

\* {"score": 0, "error": str(e)} for an exception of kind e
ErrorPlaceholder(e) == [score |-> Num(0), error |-> e]

\* A validated record as the entry of a mapping.
Entry(record) == [score |-> Num(record.score)]

\* scores = [r.get("score", 0) ...]; sum(scores)
RECURSIVE SumScores(_)
SumScores(rs) == IF rs = <<>> THEN 0 ELSE Head(rs).score + SumScores(Tail(rs))

\* avg_score = sum(scores) / len(scores) if scores else 0
AvgScoreRounded(rs) ==
    IF rs = <<>> THEN Num(0) ELSE Num(SumScores(rs) \div Len(rs))

AvgScore(rs) ==
    IF rs = <<>> THEN Num(0) ELSE RatDiv[Num(SumScores(rs)), Len(rs)]

\* The return value of _assess_file for chunk_results rs.
FileResult(f, rs) == [file_path |-> f, score |-> AvgScore(rs)]

\* return {"file_path": file_path, "score": 0, "explanation": "Empty file"}
EmptyFileResult(f) ==
    [file_path |-> f, score |-> Num(0), explanation |-> "Empty file"]

\* dict.update: the entries of b, and those of a under the other keys.
Update(a, b) ==
    [k \in (DOMAIN a) \cup (DOMAIN b) |-> IF k \in DOMAIN b THEN b[k] ELSE a[k]]

\* all_results: the category mappings merged in the order of results.
AllResultsReversed(results) ==
    Update(Update(results["metadata_based"], results["content_based"]),
           results["logic_based"])

AllResults(results) ==
    Update(Update(results["logic_based"], results["content_based"]),
           results["metadata_based"])

\* The entries counted: isinstance(result, dict) and "score" in result.
ScoredWithoutErrors(all) ==
    {k \in DOMAIN all :
        "score" \in DOMAIN all[k] /\ "error" \notin DOMAIN all[k]}

Scored(all) == {k \in DOMAIN all : "score" \in DOMAIN all[k]}

\* total_score over the entries ks of all.
TotalScore(all, scored) ==
    LET total[ks \in SUBSET scored] ==
            IF ks = {} THEN Num(0)
            ELSE LET k == CHOOSE x \in ks : TRUE
                 IN  RatAdd[all[k].score, total[ks \ {k}]]
    IN  total[scored]

\* RepositoryAnalyzer._aggregate_results
AggregateResults(results) ==
    LET all == AllResults(results)
        total_criteria == Cardinality(Scored(all))
        total_score == TotalScore(all, Scored(all))
    IN  [overall_score |-> IF total_criteria > 0
                           THEN RatDiv[total_score, total_criteria]
                           ELSE Num(0),
         detailed_results |-> all,
         total_criteria |-> total_criteria]

\* The key of each category in the analyzer's results.
ResultKey ==
    [logic |-> "logic_based", content |-> "content_based",
     metadata |-> "metadata_based"]

\* Where the analyzer waits for the future of category c.
CollectPc ==
    [logic |-> "collect_logic", content |-> "collect_content",
     metadata |-> "collect_metadata"]

\* Where the analyzer goes once it has the result of category c.
AfterCollectFirst(c) == "aggregate"

AfterCollect(c) ==
    IF IndexIn(CatOrder, c) < Len(CatOrder)
    THEN CollectPc[CatOrder[IndexIn(CatOrder, c) + 1]]
    ELSE "aggregate"

\* The one-entry mapping k -> v.
Single(k, v) == [x \in {k} |-> v]

\* The other specifications' variables, which a run leaves alone.
RunFrame == UNCHANGED <<chunkVars, clientVars, unitVars>>

RunStart ==
    /\ max_workers \in 1..MaxWorkers
    /\ repo \in RunRepos
    /\ file_text \in [Files -> RunTexts]
    /\ an_pc = "clone"
    /\ an_results = EmptyMap
    /\ an_report = NoValue
    /\ an_error = NoValue
    /\ cat_pc = [c \in Cats |-> "unsubmitted"]
    /\ cat_value = [c \in Cats |-> NoValue]
    /\ co_pc = "idle"
    /\ co_results = EmptyMap
    /\ co_order = <<>>
    /\ f_pc = [f \in Files |-> "unsubmitted"]
    /\ f_start = [f \in Files |-> 0]
    /\ f_nchunks = [f \in Files |-> 0]
    /\ f_results = [f \in Files |-> <<>>]
    /\ f_value = [f \in Files |-> NoValue]

RunInit ==
    /\ RunStart
    /\ token_limit \in RunTokenLimits
    /\ text = <<>> /\ start = 0 /\ chunks = <<>> /\ ct_pc = "idle"
    /\ ClientIdle
    /\ UnitIdle

\* repo_path = clone_repository(...) raises.
AnalyzerCloneFails ==
    /\ an_pc = "clone"
    /\ an_pc' = "raised"
    /\ an_error' = Raised("clone_error")
    /\ UNCHANGED <<max_workers, repo, file_text, an_results, an_report,
                   cat_pc, cat_value, co_pc, co_results, co_order,
                   f_pc, f_start, f_nchunks, f_results, f_value>>
    /\ RunFrame

\* The repository is acquired and the three category tasks are submitted.
AnalyzerSubmit ==
    /\ an_pc = "clone"
    /\ cat_pc' = [c \in Cats |-> "queued"]
    /\ an_pc' = CollectPc[CatOrder[1]]
    /\ UNCHANGED <<max_workers, repo, file_text, an_results, an_report, an_error,
                   cat_value, co_pc, co_results, co_order,
                   f_pc, f_start, f_nchunks, f_results, f_value>>
    /\ RunFrame

\* A worker of the analyzer's pool takes category task c.
CategoryStart(c) ==
    /\ FirstQueued(CatOrder, cat_pc, c)
    /\ PoolFree(CatsRunning)
    /\ cat_pc' = [cat_pc EXCEPT ![c] = "running"]
    /\ co_pc' = IF c = "content" THEN "discover" ELSE co_pc
    /\ UNCHANGED <<max_workers, repo, file_text, an_pc, an_results, an_report,
                   an_error, cat_value, co_results, co_order,
                   f_pc, f_start, f_nchunks, f_results, f_value>>
    /\ RunFrame

\* _run_logic_based_assessment
LogicRun ==
    /\ cat_pc["logic"] = "running"
    /\ cat_pc' = [cat_pc EXCEPT !["logic"] = "returned"]
    /\ cat_value' = [cat_value EXCEPT !["logic"] = LogicAssess(repo)]
    /\ UNCHANGED <<max_workers, repo, file_text, an_pc, an_results, an_report,
                   an_error, co_pc, co_results, co_order,
                   f_pc, f_start, f_nchunks, f_results, f_value>>
    /\ RunFrame

\* The mapping MetadataBasedScorer.assess_repository returns when its call of
\* invoke_structured ends with out.
MetadataResultUncaught(out) ==
    IF out.kind = "return" THEN Single("metadata_assessment", Entry(out.value))
    ELSE EmptyMap

MetadataResult(out) ==
    Single("metadata_assessment",
           IF out.kind = "return" THEN Entry(out.value)
           ELSE ErrorPlaceholder(out.error))

\* _run_metadata_based_assessment: one call of invoke_structured, a failure
\* of which is caught.
MetadataRun ==
    /\ cat_pc["metadata"] = "running"
    /\ \E out \in RunOutcomes :
        cat_value' = [cat_value EXCEPT !["metadata"] = MetadataResult(out)]
    /\ cat_pc' = [cat_pc EXCEPT !["metadata"] = "returned"]
    /\ UNCHANGED <<max_workers, repo, file_text, an_pc, an_results, an_report,
                   an_error, co_pc, co_results, co_order,
                   f_pc, f_start, f_nchunks, f_results, f_value>>
    /\ RunFrame

\* ContentBasedScorer.assess_repository: _get_assessable_files raises (a file
\* vanishes or a link dangles under os.path.getsize); nothing catches it.
ContentDiscoverFails ==
    /\ cat_pc["content"] = "running"
    /\ co_pc = "discover"
    /\ cat_pc' = [cat_pc EXCEPT !["content"] = "raised"]
    /\ cat_value' = [cat_value EXCEPT !["content"] = Raised("os_error")]
    /\ co_pc' = "done"
    /\ UNCHANGED <<max_workers, repo, file_text, an_pc, an_results, an_report,
                   an_error, co_results, co_order,
                   f_pc, f_start, f_nchunks, f_results, f_value>>
    /\ RunFrame

\* ContentBasedScorer.assess_repository: the files are listed and one task per
\* file is submitted.
ContentDiscover ==
    /\ cat_pc["content"] = "running"
    /\ co_pc = "discover"
    /\ f_pc' = [f \in Files |-> "queued"]
    /\ co_pc' = "collect"
    /\ UNCHANGED <<max_workers, repo, file_text, an_pc, an_results, an_report,
                   an_error, cat_pc, cat_value, co_results, co_order,
                   f_start, f_nchunks, f_results, f_value>>
    /\ RunFrame

\* A worker of the content runner's pool takes the task of file f.
FileStart(f) ==
    /\ FirstQueued(FileOrder, f_pc, f)
    /\ PoolFree(FilesRunning)
    /\ f_pc' = [f_pc EXCEPT ![f] = "load"]
    /\ UNCHANGED <<max_workers, repo, file_text, an_pc, an_results, an_report,
                   an_error, cat_pc, cat_value, co_pc, co_results, co_order,
                   f_start, f_nchunks, f_results, f_value>>
    /\ RunFrame

\* _assess_file: _load_file_content raises (unreadable file, broken notebook).
FileLoadFails(f) ==
    /\ f_pc[f] = "load"
    /\ f_pc' = [f_pc EXCEPT ![f] = "raised"]
    /\ f_value' = [f_value EXCEPT ![f] = Raised("load_error")]
    /\ UNCHANGED <<max_workers, repo, file_text, an_pc, an_results, an_report,
                   an_error, cat_pc, cat_value, co_pc, co_results, co_order,
                   f_start, f_nchunks, f_results>>
    /\ RunFrame

\* _assess_file: the content is loaded; an empty one is answered at once,
\* any other goes to _chunk_text.
FileLoad(f) ==
    /\ f_pc[f] = "load"
    /\ IF Strip(file_text[f]) = <<>>
       THEN /\ f_pc' = [f_pc EXCEPT ![f] = "returned"]
            /\ f_value' = [f_value EXCEPT ![f] = EmptyFileResult(f)]
       ELSE /\ f_pc' = [f_pc EXCEPT ![f] = "test"]
            /\ UNCHANGED f_value
    /\ UNCHANGED <<max_workers, repo, file_text, an_pc, an_results, an_report,
                   an_error, cat_pc, cat_value, co_pc, co_results, co_order,
                   f_start, f_nchunks, f_results>>
    /\ RunFrame

\* _chunk_text in the task of f: while start < len(text).  After the loop the
\* chunks are scored one by one; without chunks the result is built at once.
FileChunkTest(f) ==
    /\ f_pc[f] = "test"
    /\ IF f_start[f] < Len(file_text[f])
       THEN /\ f_pc' = [f_pc EXCEPT ![f] = "body"]
            /\ UNCHANGED f_value
       ELSE IF f_nchunks[f] > 0
       THEN /\ f_pc' = [f_pc EXCEPT ![f] = "call"]
            /\ UNCHANGED f_value
       ELSE /\ f_pc' = [f_pc EXCEPT ![f] = "returned"]
            /\ f_value' = [f_value EXCEPT ![f] = FileResult(f, <<>>)]
    /\ UNCHANGED <<max_workers, repo, file_text, an_pc, an_results, an_report,
                   an_error, cat_pc, cat_value, co_pc, co_results, co_order,
                   f_start, f_nchunks, f_results>>
    /\ RunFrame

\* _chunk_text in the task of f: the loop body.
FileChunkBody(f) ==
    /\ f_pc[f] = "body"
    /\ f_nchunks' = [f_nchunks EXCEPT ![f] = Min(@ + 1, MaxChunks)]
    /\ f_start' = [f_start EXCEPT ![f] =
           NextStart(ChunkEnd(@, token_limit, Len(file_text[f])), token_limit)]
    /\ f_pc' = [f_pc EXCEPT ![f] = "test"]
    /\ UNCHANGED <<max_workers, repo, file_text, an_pc, an_results, an_report,
                   an_error, cat_pc, cat_value, co_pc, co_results, co_order,
                   f_results, f_value>>
    /\ RunFrame

\* _assess_file: invoke_structured for the next chunk.  A raised failure
\* leaves _assess_file; a record is appended to chunk_results, and after the
\* last chunk the result is built and returned.
FileCall(f) ==
    /\ f_pc[f] = "call"
    /\ \E out \in RunOutcomes :
        IF out.kind = "raise"
        THEN /\ f_pc' = [f_pc EXCEPT ![f] = "raised"]
             /\ f_value' = [f_value EXCEPT ![f] = Raised(out.error)]
             /\ UNCHANGED f_results
        ELSE LET rs == Append(f_results[f], out.value)
             IN  /\ f_results' = [f_results EXCEPT ![f] = rs]
                 /\ IF Len(rs) = f_nchunks[f]
                    THEN /\ f_pc' = [f_pc EXCEPT ![f] = "returned"]
                         /\ f_value' = [f_value EXCEPT ![f] = FileResult(f, rs)]
                    ELSE UNCHANGED <<f_pc, f_value>>
    /\ UNCHANGED <<max_workers, repo, file_text, an_pc, an_results, an_report,
                   an_error, cat_pc, cat_value, co_pc, co_results, co_order,
                   f_start, f_nchunks>>
    /\ RunFrame

\* A collecting loop without the try/except around future.result(): whatever
\* the task ended with is stored as it is.
CollectedUncaught(f) == f_value[f]

\* What the collecting loop stores for the finished task of f: its result, or
\* the placeholder when future.result() raises.
Collected(f) ==
    IF f_pc[f] = "returned" THEN f_value[f]
    ELSE ErrorPlaceholder(f_value[f].exception)

\* The files whose future as_completed has yielded so far.
Yielded == {co_order[i] : i \in DOMAIN co_order}

StoredUnderPosition(f, order) == FileOrder[Len(order) + 1]

\* file_path = future_to_file[future]: the key the result of the task of f is
\* stored under, whatever was stored before it.
StoredUnder(f, order) == f

\* ContentBasedScorer.assess_repository: as_completed yields the finished
\* task of f and its result is stored under its path.
ContentCollect(f) ==
    /\ cat_pc["content"] = "running"
    /\ co_pc = "collect"
    /\ f \in FilesDone
    /\ f \notin Yielded
    /\ co_results' =
           Update(co_results, Single(StoredUnder(f, co_order), Collected(f)))
    /\ co_order' = Append(co_order, f)
    /\ UNCHANGED <<max_workers, repo, file_text, an_pc, an_results, an_report,
                   an_error, cat_pc, cat_value, co_pc,
                   f_pc, f_start, f_nchunks, f_results, f_value>>
    /\ RunFrame

\* ContentBasedScorer.assess_repository: every future was yielded; return.
ContentReturn ==
    /\ cat_pc["content"] = "running"
    /\ co_pc = "collect"
    /\ Yielded = Files
    /\ cat_pc' = [cat_pc EXCEPT !["content"] = "returned"]
    /\ cat_value' = [cat_value EXCEPT !["content"] = co_results]
    /\ co_pc' = "done"
    /\ UNCHANGED <<max_workers, repo, file_text, an_pc, an_results, an_report,
                   an_error, co_results, co_order,
                   f_pc, f_start, f_nchunks, f_results, f_value>>
    /\ RunFrame

\* results[...] = future.result() for category c: the mapping is stored, or
\* the task's exception is raised in the analyzer's thread.
AnalyzerCollect(c) ==
    /\ an_pc = CollectPc[c]
    /\ c \in CatsDone
    /\ IF cat_pc[c] = "returned"
       THEN /\ an_results' = Update(an_results, Single(ResultKey[c], cat_value[c]))
            /\ an_pc' = AfterCollect(c)
            /\ UNCHANGED an_error
       ELSE /\ an_error' = cat_value[c]
            /\ an_pc' = "unwind"
            /\ UNCHANGED an_results
    /\ UNCHANGED <<max_workers, repo, file_text, an_report,
                   cat_pc, cat_value, co_pc, co_results, co_order,
                   f_pc, f_start, f_nchunks, f_results, f_value>>
    /\ RunFrame

\* The exception leaves the with block: the executor waits for its tasks,
\* then the exception leaves assess_repository.
AnalyzerUnwind ==
    /\ an_pc = "unwind"
    /\ CatsDone = Cats
    /\ an_pc' = "raised"
    /\ UNCHANGED <<max_workers, repo, file_text, an_results, an_report, an_error,
                   cat_pc, cat_value, co_pc, co_results, co_order,
                   f_pc, f_start, f_nchunks, f_results, f_value>>
    /\ RunFrame

\* final_results = self._aggregate_results(results, repo_url); return
AnalyzerAggregate ==
    /\ an_pc = "aggregate"
    /\ an_report' = AggregateResults(an_results)
    /\ an_pc' = "returned"
    /\ UNCHANGED <<max_workers, repo, file_text, an_results, an_error,
                   cat_pc, cat_value, co_pc, co_results, co_order,
                   f_pc, f_start, f_nchunks, f_results, f_value>>
    /\ RunFrame

\* The steps of the task of file f.
FileTask(f) ==
    \/ FileStart(f)
    \/ FileLoadFails(f)
    \/ FileLoad(f)
    \/ FileChunkTest(f)
    \/ FileChunkBody(f)
    \/ FileCall(f)

\* The steps of the content runner's own thread.
ContentRunner ==
    \/ ContentDiscoverFails
    \/ ContentDiscover
    \/ \E f \in Files : ContentCollect(f)
    \/ ContentReturn

\* The steps of the analyzer's own thread.
Analyzer ==
    \/ AnalyzerCloneFails
    \/ AnalyzerSubmit
    \/ \E c \in Cats : AnalyzerCollect(c)
    \/ AnalyzerUnwind
    \/ AnalyzerAggregate

RunNext ==
    \/ Analyzer
    \/ \E c \in Cats : CategoryStart(c)
    \/ LogicRun
    \/ MetadataRun
    \/ ContentRunner
    \/ \E f \in Files : FileTask(f)

RunSpec == RunInit /\ [][RunNext]_vars

\* Every thread that can take a step eventually takes one: the analyzer's
\* thread, the pools' workers and the tasks they run.
FairRunSpec ==
    /\ RunSpec
    /\ WF_vars(Analyzer)
    /\ WF_vars(\E c \in Cats : CategoryStart(c))
    /\ WF_vars(LogicRun)
    /\ WF_vars(MetadataRun)
    /\ WF_vars(ContentRunner)
    /\ \A f \in Files : WF_vars(FileTask(f))

\* ------------------------------------------------------ claims about a run

\* The task of f had N >= 2 chunks, the call for exactly one of them failed
\* after its retries and the calls for the other N - 1 succeeded.
OneChunkFailed(f) ==
    /\ f_pc[f] = "raised"
    /\ f_nchunks[f] >= 2
    /\ Len(f_results[f]) = f_nchunks[f] - 1

\* C5: if a document has N >= 2 chunks and the oracle call of exactly one
\* chunk fails after its retries, the document's result has no error and its
\* score is the mean of the other N - 1 chunk scores.
C5_PartialFailureMean ==
    \A f \in Files :
        (f \in DOMAIN co_results /\ OneChunkFailed(f))
            => /\ "error" \notin DOMAIN co_results[f]
               /\ co_results[f].score = AvgScore(f_results[f])

\* The analyzer's call is over.
AnalyzerDone == an_pc \in {"returned", "raised"}

\* C6: if the top-level execution of one category runner raises, the analyzer
\* still returns a report, and the report holds the results of the other two
\* categories.
C6_CategoryIsolation ==
    \A c \in Cats :
        (cat_pc[c] = "raised" /\ AnalyzerDone)
            => /\ an_pc = "returned"
               /\ \A c2 \in Cats \ {c} :
                      DOMAIN cat_value[c2] \subseteq DOMAIN an_report.detailed_results

\* C7: in the content runner the failure of one file's task is caught at that
\* file and stored as {score: 0, error: reason} under its path; every other
\* file's entry is the result its own task returned; and the runner returns
\* normally, with one entry per file.
C7_FileFailureIsolated ==
    /\ \A f \in DOMAIN co_results :
           /\ f_pc[f] = "raised"
                  => co_results[f] = ErrorPlaceholder(f_value[f].exception)
           /\ f_pc[f] = "returned" => co_results[f] = f_value[f]
    /\ (\E f \in Files : f_pc[f] = "raised") => cat_pc["content"] # "raised"
    /\ cat_pc["content"] = "returned" => DOMAIN cat_value["content"] = Files
    /\ (co_pc = "collect" /\ FilesDone = Files) => ENABLED ContentRunner

\* The content runner has returned; one file's task failed and the other
\* file's task returned a scored result.
C7_Witness ==
    /\ cat_pc["content"] = "returned"
    /\ \E f, g \in Files :
           /\ f_pc[f] = "raised"
           /\ f_pc[g] = "returned"
           /\ cat_value["content"][f] = ErrorPlaceholder(f_value[f].exception)
           /\ cat_value["content"][g].score = Num(100)

\* The task of f had chunks, and no oracle call for them succeeded: the first
\* call failed after its retries, which ends the task.
AllChunksFailed(f) ==
    /\ f_pc[f] = "raised"
    /\ f_nchunks[f] >= 1
    /\ f_results[f] = <<>>

\* C8: if the oracle call fails after retries for every chunk of a document,
\* the document's entry in the content result has score 0 and a recorded error
\* reason, and every other discovered document gets its own entry.
C8_TotalFailureEntry ==
    \A f \in Files :
        AllChunksFailed(f) =>
            /\ f \in DOMAIN co_results
                   => /\ co_results[f].score = Num(0)
                      /\ "error" \in DOMAIN co_results[f]
                      /\ co_results[f].error = f_value[f].exception
            /\ cat_pc["content"] # "raised"
            /\ cat_pc["content"] = "returned"
                   => /\ DOMAIN cat_value["content"] = Files
                      /\ cat_value["content"][f] = co_results[f]
                      /\ \A g \in Files \ {f} :
                             cat_value["content"][g] = Collected(g)

\* The content runner has returned; every chunk call of one two-chunk document
\* failed and the other document was scored.
C8_Witness ==
    /\ cat_pc["content"] = "returned"
    /\ \E f, g \in Files :
           /\ AllChunksFailed(f)
           /\ f_nchunks[f] = 2
           /\ f_pc[g] = "returned"
           /\ f_nchunks[g] >= 1
           /\ "error" \notin DOMAIN cat_value["content"][g]

\* The content of f is empty or only whitespace.
Blank(f) == \A i \in DOMAIN file_text[f] : file_text[f][i] = " "

\* C11: assessing a document that is empty or only whitespace makes no oracle
\* call (its task never enters the chunk loop or a call, and no chunk record
\* exists) and returns score 0 with the explanation "Empty file" and without
\* an error field, which is also the entry the content runner stores.
C11_EmptyDocumentShortCircuit ==
    \A f \in Files :
        Blank(f) =>
            /\ f_pc[f] \notin {"test", "body", "call"}
            /\ f_results[f] = <<>>
            /\ f_pc[f] = "returned"
                   => /\ f_value[f] = [file_path |-> f, score |-> Num(0),
                                       explanation |-> "Empty file"]
                      /\ "error" \notin DOMAIN f_value[f]
                      /\ f \in DOMAIN co_results => co_results[f] = f_value[f]

\* The content runner has returned; one document was blank and got the
\* "Empty file" entry, the other was scored through an oracle call.
C11_Witness ==
    /\ cat_pc["content"] = "returned"
    /\ \E f, g \in Files :
           /\ Blank(f)
           /\ cat_value["content"][f]
                  = [file_path |-> f, score |-> Num(0),
                     explanation |-> "Empty file"]
           /\ Len(f_results[g]) >= 1
           /\ f_pc[g] = "returned"

\* C10: once the repository has been acquired, assess_repository eventually
\* returns a report, whatever the oracle answers.  The claim is about the
\* oracle's successes and failures: a run in which listing the files raises
\* (no oracle outcome; see C6) is not held against it.
C10_EventuallyReport ==
    (an_pc = "collect_logic")
        ~> (an_pc = "returned" \/ cat_pc["content"] = "raised")

\* A step changes the result mapping of category c.
Writes(c) == cat_value'[c] # cat_value[c]

\* C20: merging starts only after all three category tasks have finished, and
\* a running task touches no other category's mapping: whenever the analyzer
\* is at or past _aggregate_results every category task has returned and its
\* mapping is in results; a category's mapping is written only by a step of
\* its own running task, which writes no other category's mapping; and
\* results is written only by the analyzer's thread while it collects.
C20_MergeAfterAllFinished ==
    /\ [](an_pc \in {"aggregate", "returned"}
              => /\ \A c \in Cats : cat_pc[c] = "returned"
                 /\ \A c \in Cats : an_results[ResultKey[c]] = cat_value[c])
    /\ [][\A c \in Cats :
              Writes(c) => /\ cat_pc[c] = "running"
                           /\ \A c2 \in Cats \ {c} : ~Writes(c2)
                           /\ an_results' = an_results]_vars
    /\ [][an_results' # an_results
              => \E c \in Cats : an_pc = CollectPc[c] /\ cat_pc[c] = "returned"]_vars

\* The analyzer is about to merge: the three tasks have returned and the
\* content mapping holds an entry per file.
C20_Witness ==
    /\ an_pc = "aggregate"
    /\ \A c \in Cats : cat_pc[c] = "returned"
    /\ DOMAIN an_results["content_based"] = Files

\* C21: in the content strategy at most max_workers per-file tasks run at
\* any moment; a queued task starts only while a worker is free; an entry once
\* collected is not collected again; and every submitted file's task is
\* eventually run and collected.
C21_BoundedPoolAllCollected ==
    /\ [](Cardinality(FilesRunning) <= max_workers)
    /\ [][\A f \in Files :
              (f_pc[f] = "queued" /\ f_pc'[f] # "queued")
                  => Cardinality(FilesRunning) < max_workers]_vars
    /\ [][\A f \in DOMAIN co_results :
              f \in DOMAIN co_results' /\ co_results'[f] = co_results[f]]_vars
    /\ \A f \in Files : (f_pc[f] = "queued") ~> (f \in DOMAIN co_results)

\* The oracle calls in flight: the per-file tasks in a chunk call, and the
\* metadata task, whose run is its one call.
CallsInFlight ==
    Cardinality({f \in Files : f_pc[f] = "call"})
        + (IF cat_pc["metadata"] = "running" THEN 1 ELSE 0)

\* C22: over a whole run the number of oracle calls in flight at the same
\* moment never exceeds max_workers.
C22_CallsBoundedByPool == an_pc # "idle" => CallsInFlight <= max_workers

\* The mapping the metadata strategy is to return when its call ends with
\* out: the validated record, or score 0 with the reason of the failure, under
\* the one key metadata_assessment.
MetadataExpected(out) ==
    [k \in {"metadata_assessment"} |->
        IF out.kind = "return" THEN [score |-> Num(out.value.score)]
        ELSE [score |-> Num(0), error |-> out.error]]

\* C25: the metadata strategy makes one invoke_structured call and always
\* returns a mapping with exactly the key metadata_assessment: its task never
\* raises, and the step that ends it stores the validated record of the call
\* or, when the call failed after its retries, {score: 0, error: reason}.
C25_MetadataSingleEntry ==
    /\ [](an_pc # "idle" =>
              /\ cat_pc["metadata"] # "raised"
              /\ cat_pc["metadata"] = "returned"
                     => DOMAIN cat_value["metadata"] = {"metadata_assessment"})
    /\ [][(cat_pc["metadata"] = "running" /\ cat_pc'["metadata"] # "running")
              => /\ cat_pc'["metadata"] = "returned"
                 /\ \E out \in RunOutcomes :
                        cat_value'["metadata"] = MetadataExpected(out)]_vars

\* The metadata task has returned the placeholder of a failed call.
C25_Witness ==
    /\ cat_pc["metadata"] = "returned"
    /\ cat_value["metadata"]
           = [metadata_assessment |-> [score |-> Num(0), error |-> "transient"]]

\* What the outcome of the task of f amounts to in the mapping: the result
\* the task returned, or {score: 0, error: reason} for a task that raised.
EntryOfOutcome(f) ==
    IF f_pc[f] = "returned" THEN f_value[f]
    ELSE [score |-> Num(0), error |-> f_value[f].exception]

\* A step of a per-file worker task.
WorkerStep ==
    f_pc' # f_pc \/ f_value' # f_value \/ f_results' # f_results
        \/ f_start' # f_start \/ f_nchunks' # f_nchunks

\* C33: the mapping the content runner returns depends on the outcomes of the
\* per-file tasks only, not on the order in which the tasks complete and are
\* collected: it has exactly one entry per discovered file, the entry of that
\* file's own outcome.  The mapping is written by the collecting thread
\* only: a step of a worker task never changes it, and every change stores
\* one finished task's entry while the runner is collecting.
C33_MappingIndependentOfOrder ==
    /\ [](cat_pc # <<>> /\ cat_pc["content"] = "returned" =>
              /\ DOMAIN cat_value["content"] = {"a.py", "b.md"}
              /\ \A f \in Files : cat_value["content"][f] = EntryOfOutcome(f)
              /\ Len(co_order) = 2
              /\ co_order[1] # co_order[2])
    /\ [][WorkerStep => co_results' = co_results]_vars
    /\ [][co_results' # co_results =>
              /\ co_pc = "collect" /\ co_pc' = "collect"
              /\ \E f \in FilesDone \ DOMAIN co_results :
                     /\ DOMAIN co_results' = DOMAIN co_results \cup {f}
                     /\ co_results'[f] = EntryOfOutcome(f)
                     /\ \A g \in DOMAIN co_results :
                            co_results'[g] = co_results[g]]_vars

\* The content runner has returned; the second file's task was collected
\* before the first one's, one of them having raised and the other returned.
C33_Witness ==
    /\ cat_pc # <<>>
    /\ cat_pc["content"] = "returned"
    /\ co_order = <<"b.md", "a.py">>
    /\ f_pc["a.py"] = "returned"
    /\ f_pc["b.md"] = "raised"
    /\ cat_value["content"]["a.py"].score = Num(100)
    /\ "error" \in DOMAIN cat_value["content"]["b.md"]

\* ------------------------------------------------- scoring of one document
\* ContentBasedScorer._assess_file from the loop over the chunks on
\* (src/core/scorer.py:64-86), the records carrying their explanations.

\* Most chunks a document has in a call of _assess_file.
MaxAssessChunks == 4

\* Explanations the oracle may give: texts of several lengths, two of them
\* equally long.
Explanations == {<<"a">>, <<"b">>, <<"c", "c">>}

\* Scores the oracle may answer in the scoring of a document: the ends of the
\* range and one beyond it.
AssessScores == {0, 100, 101}

\* Answers of the oracle in the scoring of a document.
AssessResponses ==
    {TransientError}
        \cup {[kind |-> "json", score |-> s, explanation |-> e] :
                 s \in AssessScores, e \in Explanations}

\* What a call of invoke_structured can give _assess_file.
AssessOutcomes == ClientOutcomes(AssessResponses)

\* (r.get("explanation", "") for r in chunk_results)
ExplanationsOf(rs) == [i \in DOMAIN rs |-> rs[i].explanation]

\* One step of the sort by key=len, reverse=True: e goes behind every element
\* that is at least as long, so equally long elements keep their order.
InsertByLenUnstable(sorted, e) ==
    LET n == Cardinality({i \in DOMAIN sorted : Len(sorted[i]) > Len(e)})
    IN  SubSeq(sorted, 1, n) \o <<e>> \o SubSeq(sorted, n + 1, Len(sorted))

InsertByLen(sorted, e) ==
    LET n == Cardinality({i \in DOMAIN sorted : Len(sorted[i]) >= Len(e)})
    IN  SubSeq(sorted, 1, n) \o <<e>> \o SubSeq(sorted, n + 1, Len(sorted))

\* sorted(..., key=len, reverse=True)
RECURSIVE SortedByLen(_)
SortedByLen(es) ==
    IF es = <<>> THEN <<>>
    ELSE InsertByLen(SortedByLen(SubSeq(es, 1, Len(es) - 1)), es[Len(es)])

\* [:3]
FirstThree(es) == SubSeq(es, 1, Min(3, Len(es)))

\* "\n\n".join(explanations)
RECURSIVE JoinBlankLine(_)
JoinBlankLine(es) ==
    IF es = <<>> THEN <<>>
    ELSE IF Len(es) = 1 THEN es[1]
    ELSE es[1] \o <<"\n", "\n">> \o JoinBlankLine(Tail(es))

\* explanation
Explanation(rs) == JoinBlankLine(FirstThree(SortedByLen(ExplanationsOf(rs))))

\* The return value of _assess_file for chunk_results rs, explanation included.
AssessResult(f, rs) ==
    [file_path |-> f, score |-> AvgScore(rs), explanation |-> Explanation(rs)]

AssessFrame == UNCHANGED <<chunkVars, clientVars, runVars, aggVars, fsVars>>

CurrentChunkFromEnd(results, n) == n - Len(results)

\* "for chunk in chunks": the chunk of the iteration that follows the records
\* appended so far, by its index in chunks.
CurrentChunk(results, n) == Len(results) + 1

AssessStart ==
    /\ as_pc = "loop"
    /\ as_nchunks \in 1..MaxAssessChunks
    /\ chunk_results = <<>>
    /\ as_calls = <<>>
    /\ as_value = NoValue

\* One iteration of "for chunk in chunks": the call returns a record, which is
\* appended, or raises, which leaves _assess_file.
AssessCall ==
    /\ as_pc = "loop"
    /\ Len(chunk_results) < as_nchunks
    /\ as_calls' = Append(as_calls, CurrentChunk(chunk_results, as_nchunks))
    /\ \E out \in AssessOutcomes :
        IF out.kind = "raise"
        THEN /\ as_pc' = "raised"
             /\ as_value' = Raised(out.error)
             /\ UNCHANGED chunk_results
        ELSE /\ chunk_results' = Append(chunk_results, out.value)
             /\ UNCHANGED <<as_pc, as_value>>
    /\ UNCHANGED as_nchunks
    /\ AssessFrame

\* After the loop: the mean, the explanation and the return.
AssessReturn ==
    /\ as_pc = "loop"
    /\ Len(chunk_results) = as_nchunks
    /\ as_value' = AssessResult(FileOrder[1], chunk_results)
    /\ as_pc' = "returned"
    /\ UNCHANGED <<as_nchunks, chunk_results, as_calls>>
    /\ AssessFrame

AssessInit ==
    /\ AssessStart
    /\ AggIdle
    /\ FsIdle
    /\ ChunkIdle /\ ClientIdle /\ RunIdle

AssessNext == AssessCall \/ AssessReturn

AssessSpec == AssessInit /\ [][AssessNext]_vars

\* ------------------------------- claims about the scoring of one document

\* The number q lies in [0, 100].
InRange(q) == q.den > 0 /\ q.num >= 0 /\ q.num <= 100 * q.den

\* C12: every score that reaches a result is in [0,100]: each record that
\* invoke_structured returned to _assess_file carries an integer score in
\* [0,100] (an answer with a score outside the range never becomes a record),
\* and the score of a returned document lies in [0,100].
C12_ScoresInRange ==
    /\ \A i \in DOMAIN chunk_results : chunk_results[i].score \in 0..100
    /\ as_pc = "returned" => InRange(as_value.score)

\* A returned document whose chunks got both ends of the range.
C12_Witness ==
    /\ as_pc = "returned"
    /\ \E i, j \in DOMAIN chunk_results :
           chunk_results[i].score = 0 /\ chunk_results[j].score = 100
    /\ as_value.score = [num |-> 50, den |-> 1]

\* The sum of the scores of the records appended so far.
ChunkScoreSum ==
    LET sum[i \in 0..Len(chunk_results)] ==
            IF i = 0 THEN 0 ELSE sum[i - 1] + chunk_results[i].score
    IN  sum[Len(chunk_results)]

\* C13: when the N chunk calls of a document all succeed, its score is the
\* sum of the N chunk scores divided by N, exactly: score * N = sum.
C13_DocumentScoreIsMean ==
    as_pc = "returned"
        => /\ Len(chunk_results) = as_nchunks
           /\ as_value.score.den > 0
           /\ as_value.score.num * as_nchunks
                  = ChunkScoreSum * as_value.score.den

\* A returned document of three chunks with sum 200: the mean 200/3 is no
\* integer.
C13_Witness ==
    /\ as_pc = "returned"
    /\ as_nchunks = 3
    /\ ChunkScoreSum = 200
    /\ as_value.score = [num |-> 200, den |-> 3]

\* The number of explanations that come before es[i] in the order of the
\* claim: the longer ones, and the equally long ones of earlier chunks.
Rank(es, i) ==
    Cardinality({j \in DOMAIN es :
                    \/ Len(es[j]) > Len(es[i])
                    \/ Len(es[j]) = Len(es[i]) /\ j < i})

\* The (at most) three explanations of lowest rank, by rank.
Selected(es) ==
    [r \in 1..Min(3, Len(es)) |->
        es[CHOOSE i \in DOMAIN es : Rank(es, i) = r - 1]]

\* C15: the document explanation is the at most three longest chunk
\* explanations joined by a blank line, in order of decreasing length,
\* equally long ones in their chunk order.
C15_ThreeLongestExplanations ==
    as_pc = "returned"
        => as_value.explanation
               = JoinBlankLine(Selected(ExplanationsOf(chunk_results)))

\* Four chunks explained "a", "cc", "b", "a": the longest first, then the two
\* first one-letter explanations in chunk order; the fourth is left out.
C15_Witness ==
    /\ as_pc = "returned"
    /\ ExplanationsOf(chunk_results) = <<<<"a">>, <<"c", "c">>, <<"b">>, <<"a">>>>
    /\ as_value.explanation = <<"c", "c", "\n", "\n", "a", "\n", "\n", "b">>

\* C31: within one document the chunk calls are issued one at a time in the
\* order of the chunks, each call ending before the next is issued; a
\* document that is returned had exactly one call per chunk; when the call
\* for chunk k raises, the exception leaves _assess_file, no call is issued
\* for a later chunk and no score is returned for the document.
C31_SequentialChunkCalls ==
    /\ [](/\ \A i \in DOMAIN as_calls : as_calls[i] = i
          /\ Len(as_calls) <= Len(chunk_results) + 1
          /\ as_pc = "returned" =>
                 /\ as_calls = [i \in 1..as_nchunks |-> i]
                 /\ Len(chunk_results) = as_nchunks
          /\ as_pc = "raised" =>
                 /\ Len(as_calls) = Len(chunk_results) + 1
                 /\ DOMAIN as_value = {"exception"})
    /\ [][as_pc = "raised" =>
              /\ as_calls' = as_calls
              /\ as_value' = as_value
              /\ as_pc' = "raised"]_vars

\* The call for the second of four chunks raised: two calls were issued.
C31_Witness ==
    /\ as_pc = "raised"
    /\ as_nchunks = 4
    /\ as_calls = <<1, 2>>
    /\ Len(chunk_results) = 1
    /\ "score" \notin DOMAIN as_value

\* ------------------------------------------------------------ aggregation
\* RepositoryAnalyzer._aggregate_results (src/core/analyzer.py:88-116) as a
\* function of its parameter results.

\* The categories, as the keys of results in insertion order.
AggCategories == {ResultKey[c] : c \in Cats}

\* Criterion ids the category mappings may use; a key may occur in several.
AggKeys == {"a.py", "readme_presence"}

\* Entries a category mapping may hold: an integer score, a mean that is no
\* integer, an error placeholder, and an entry without a score field.
AggEntries ==
    {[score |-> Num(100)], [score |-> Rat[200, 3]], ErrorPlaceholder("failed"),
     [explanation |-> "not scored"]}

\* The mappings a category may return.
AggMappings == UNION {[ks -> AggEntries] : ks \in SUBSET AggKeys}

AggFrame == UNCHANGED <<chunkVars, clientVars, runVars, assessVars, fsVars>>

AggStart ==
    /\ ag_pc = "call"
    /\ ag_results \in [AggCategories -> AggMappings]
    /\ ag_report = NoValue

\* The whole call: merge, count, divide, return.
Aggregate ==
    /\ ag_pc = "call"
    /\ ag_report' = AggregateResults(ag_results)
    /\ ag_pc' = "returned"
    /\ UNCHANGED ag_results
    /\ AggFrame

AggInit ==
    /\ AggStart
    /\ AssessIdle
    /\ FsIdle
    /\ ChunkIdle /\ ClientIdle /\ RunIdle

AggNext == Aggregate

AggSpec == AggInit /\ [][AggNext]_vars

\* ------------------------------------------------ claims about aggregation

\* The keys of the report's merged entries that carry a score field.
WithScore == {k \in DOMAIN ag_report.detailed_results :
                 "score" \in DOMAIN ag_report.detailed_results[k]}

\* The product of the denominators of the scores under the keys ks.
DenProduct(ks) ==
    LET prod[s \in SUBSET ks] ==
            IF s = {} THEN 1
            ELSE LET k == CHOOSE x \in s : TRUE
                 IN  ag_report.detailed_results[k].score.den * prod[s \ {k}]
    IN  prod[ks]

\* The sum of the scores under the keys ks, times DenProduct(ks).
ScaledSum(ks) ==
    LET d == DenProduct(ks)
        sum[s \in SUBSET ks] ==
            IF s = {} THEN 0
            ELSE LET k == CHOOSE x \in s : TRUE
                     q == ag_report.detailed_results[k].score
                 IN  q.num * (d \div q.den) + sum[s \ {k}]
    IN  sum[ks]

\* The entry of key k after merging: that of the last category holding k.
MergedEntry(k) ==
    IF k \in DOMAIN ag_results["metadata_based"]
    THEN ag_results["metadata_based"][k]
    ELSE IF k \in DOMAIN ag_results["content_based"]
    THEN ag_results["content_based"][k]
    ELSE ag_results["logic_based"][k]

\* C14: _aggregate_results merges the category mappings, sets total_criteria
\* to the number of merged entries with a score field and overall_score to the
\* sum of their scores divided by that number (0 when there is none); entries
\* without a score field count in neither, error placeholders count with 0.
C14_OverallIsMeanOfScored ==
    ag_pc = "returned" =>
        LET all == ag_report.detailed_results
            n == Cardinality(WithScore)
            overall == ag_report.overall_score
        IN  /\ DOMAIN all = UNION {DOMAIN ag_results[c] : c \in AggCategories}
            /\ \A k \in DOMAIN all : all[k] = MergedEntry(k)
            /\ ag_report.total_criteria = n
            /\ overall.den > 0
            /\ IF n = 0 THEN overall.num = 0
               ELSE overall.num * n * DenProduct(WithScore)
                        = ScaledSum(WithScore) * overall.den

\* A report over three merged entries: a mean 200/3, an error placeholder and
\* an entry without a score; two are counted and the overall score is 100/3.
C14_Witness ==
    /\ ag_pc = "returned"
    /\ \E k1, k2 \in DOMAIN ag_report.detailed_results :
           /\ ag_report.detailed_results[k1] = ErrorPlaceholder("failed")
           /\ ag_report.detailed_results[k2] = [score |-> Rat[200, 3]]
    /\ ag_report.total_criteria = 2
    /\ ag_report.overall_score = [num |-> 100, den |-> 3]

\* The categories in the order the claim fixes for merging.
MergeOrder == <<"logic_based", "content_based", "metadata_based">>

\* The positions in MergeOrder of the categories whose mapping holds key k.
Holders(k) == {i \in DOMAIN MergeOrder : k \in DOMAIN ag_results[MergeOrder[i]]}

\* No criterion id occurs in two categories.
Disjoint == \A k \in AggKeys : Cardinality(Holders(k)) <= 1

\* C23: the category mappings are merged in the order logic, content,
\* metadata: every key of every category is in the merged mapping, with
\* disjoint ids every entry is there unchanged, under a shared id the entry of
\* the latest category stands, and the overall score is taken over the merged
\* entries only, so an overwritten entry counts in neither sum nor number.
C23_LaterCategoryOverwrites ==
    ag_pc = "returned" =>
        LET all == ag_report.detailed_results
            n == Cardinality(WithScore)
        IN  /\ \A i \in DOMAIN MergeOrder :
                   DOMAIN ag_results[MergeOrder[i]] \subseteq DOMAIN all
            /\ Disjoint =>
                   \A i \in DOMAIN MergeOrder :
                       \A k \in DOMAIN ag_results[MergeOrder[i]] :
                           all[k] = ag_results[MergeOrder[i]][k]
            /\ \A k \in DOMAIN all :
                   \E i \in Holders(k) :
                       /\ \A j \in Holders(k) : j <= i
                       /\ all[k] = ag_results[MergeOrder[i]][k]
            /\ ag_report.total_criteria = n
            /\ n > 0 => ag_report.overall_score.num * n * DenProduct(WithScore)
                            = ScaledSum(WithScore) * ag_report.overall_score.den

\* Logic scored a.py 100 and content stored an error placeholder under the
\* same id: the placeholder stands and the overall score is 0 over 1 entry.
C23_Witness ==
    /\ ag_pc = "returned"
    /\ ag_results["logic_based"] = [k \in {"a.py"} |-> [score |-> Num(100)]]
    /\ ag_results["content_based"]
           = [k \in {"a.py"} |-> ErrorPlaceholder("failed")]
    /\ ag_results["metadata_based"] = EmptyMap
    /\ ag_report.total_criteria = 1
    /\ ag_report.overall_score = Num(0)

\* --------------------------------------------------------- file discovery
\* ContentBasedScorer._get_assessable_files (src/core/scorer.py:43-54) as a
\* function of the files under repo_path.

\* 1024 * 1024
SizeCeiling == 1048576

\* extensions = ['.py', '.md', '.ipynb', '.txt']
Extensions == {".py", ".md", ".ipynb", ".txt"}

\* Most files under repo_path in a call.
MaxTreeFiles == 2

\* Directories of a tree, each as the names on the way down from repo_path.
TreeDirs ==
    {<<>>, <<".git">>, <<"src", "__pycache__">>, <<"node_modules", "pkg">>}

\* Endings a file name may have.
TreeEndings == Extensions \cup {".json"}

\* Sizes a file may have, around the ceiling.
TreeSizes == {SizeCeiling - 1, SizeCeiling, SizeCeiling + 1}

\* The files a tree may hold: where the file is, how its name ends, its size
\* in bytes, and whether os.path.getsize can read the size.
TreeFiles ==
    [dir : TreeDirs, ending : TreeEndings, size : TreeSizes, sizable : {TRUE}]
        \cup [dir : TreeDirs, ending : TreeEndings, size : {SizeCeiling - 1},
               sizable : {FALSE}]

\* The path of a file.
PathOf(f) == [dir |-> f.dir, ending |-> f.ending]

\* The directory names of a tree that start with a dot.
HiddenDirs == {".git"}

\* dirs[:] = [d for d in dirs if not d.startswith('.') and d not in {...}]
DirPruned(name) == name \in HiddenDirs \cup {"__pycache__", "node_modules"}

\* os.walk with the pruning: the file is visited when no directory on the way
\* down to it was pruned.
Walked(f) == \A i \in DOMAIN f.dir : ~DirPruned(f.dir[i])

\* any(filename.endswith(ext) for ext in extensions)
HasExtension(f) == f.ending \in Extensions

\* os.path.getsize(file_path) < 1024 * 1024
UnderCeiling(f) == f.size < SizeCeiling

\* The files whose size the walk asks for.
Sized(tree) == {tree[i] : i \in {j \in DOMAIN tree :
                                   Walked(tree[j]) /\ HasExtension(tree[j])}}

\* The file passes the three tests of the walk.
Assessable(f) == Walked(f) /\ HasExtension(f) /\ UnderCeiling(f)

\* The returned list: the paths of the files appended, in walk order.
AssessableFiles(tree) ==
    LET kept == SelectSeq(tree, Assessable)
    IN  [i \in DOMAIN kept |-> PathOf(kept[i])]

\* The listings of at most MaxTreeFiles files.
Trees == UNION {[1..n -> TreeFiles] : n \in 0..MaxTreeFiles}

DiscoverFrame ==
    UNCHANGED <<chunkVars, clientVars, runVars, assessVars, aggVars,
                logicVars, mainVars, docVars>>

\* Trees of at most MaxTreeFiles files with distinct paths.
DiscoverStart ==
    /\ ds_pc = "call"
    /\ ds_tree \in {t \in Trees :
                       \A i, j \in DOMAIN t :
                           PathOf(t[i]) = PathOf(t[j]) => i = j}
    /\ ds_files = <<>>

\* os.path.getsize raises for a file the walk sizes: the exception leaves
\* _get_assessable_files.
DiscoverRaises ==
    /\ ds_pc = "call"
    /\ \E f \in Sized(ds_tree) : ~f.sizable
    /\ ds_pc' = "raised"
    /\ UNCHANGED <<ds_tree, ds_files>>
    /\ DiscoverFrame

\* The whole walk, every size readable: return files.
DiscoverReturns ==
    /\ ds_pc = "call"
    /\ \A f \in Sized(ds_tree) : f.sizable
    /\ ds_files' = AssessableFiles(ds_tree)
    /\ ds_pc' = "returned"
    /\ UNCHANGED ds_tree
    /\ DiscoverFrame

DiscoverInit ==
    /\ DiscoverStart
    /\ LogicIdle /\ MainIdle /\ DocIdle
    /\ AssessIdle /\ AggIdle
    /\ ChunkIdle /\ ClientIdle /\ RunIdle

DiscoverNext == DiscoverRaises \/ DiscoverReturns

DiscoverSpec == DiscoverInit /\ [][DiscoverNext]_vars

\* -------------------------------------------- claims about file discovery

\* C24: the content strategy assesses exactly the files ending in .py, .md,
\* .ipynb or .txt, outside hidden, __pycache__ and node_modules directories,
\* whose size is not above the 1 MiB ceiling: the returned paths are those of
\* the files at or below the ceiling, and of no file above it.
C24_AssessableFiles ==
    ds_pc = "returned" =>
        {ds_files[i] : i \in DOMAIN ds_files} =
            {PathOf(ds_tree[j]) :
                j \in {k \in DOMAIN ds_tree :
                          /\ ds_tree[k].ending \in {".py", ".md", ".ipynb", ".txt"}
                          /\ \A i \in DOMAIN ds_tree[k].dir :
                                 ds_tree[k].dir[i] \notin {".git", "__pycache__",
                                                           "node_modules"}
                          /\ ds_tree[k].size <= 1048576}}

\* ------------------------------------------------------ the logic validator
\* LogicBasedValidator.assess_repository (src/core/validators.py) on a
\* directory tree.  A tree is the record of what the four checks read:
\*   paths  the paths, relative to the repository root, that exist;
\*   py     the .py files of the walk, as the number of files of each kind
\*          (line count, whether the file can be opened);
\*   sizes  the files of the walk in walk order, each with its size in bytes
\*          and whether os.path.getsize succeeds on it.

\* 1024 * 1024
MiB == 1048576

\* The line count a .py file may have without counting as long.
LineLimit == 500

\* Paths that exist in a tree, at most.
MaxRootPaths == 2

\* .py files over the limit in a tree, at most.
MaxLongFiles == 6

\* Files whose size is asked for in a tree, at most.
MaxSizeFiles == 3

ReadmeFilesMarkdownOnly == <<"README.md">>

\* readme_files
ReadmeFiles == <<"README.md", "README.rst", "README.txt", "README">>

\* license_files
LicenseFiles == <<"LICENSE", "LICENSE.txt", "LICENSE.md", "LICENCE">>

\* The loop over the candidate names: some os.path.exists(...) is true.
AnyExists(paths, names) == \E i \in DOMAIN names : names[i] \in paths

\* The paths a tree may hold: the candidates of both checks and paths that
\* are none of them (another spelling, another directory).
TreePaths ==
    {"README.md", "README.rst", "README.txt", "README",
     "LICENSE", "LICENSE.txt", "LICENSE.md", "LICENCE",
     "README.markdown", "COPYING", "docs/README.md", "docs/LICENSE"}

PathSets ==
    UNION {{{ps[i] : i \in DOMAIN ps} : ps \in [1..n -> TreePaths]} :
              n \in 0..MaxRootPaths}

\* The kinds of .py file: the line count (len(f.readlines())) and whether
\* open() succeeds.
PyKinds == [lines : {LineLimit, LineLimit + 1}, readable : BOOLEAN]

IsLongInclusive(k) == k.readable /\ k.lines >= LineLimit

\* The file could be read and line_count > 500.
IsLong(k) == k.readable /\ k.lines > LineLimit

\* Up to MaxLongFiles files that are long, and at most one of each other kind.
PyBags ==
    {b \in [PyKinds -> 0..MaxLongFiles] :
        \A k \in PyKinds : ~IsLong(k) => b[k] <= 1}

RECURSIVE BagCount(_, _)
BagCount(b, kinds) ==
    IF kinds = {} THEN 0
    ELSE LET k == CHOOSE x \in kinds : TRUE
         IN  b[k] + BagCount(b, kinds \ {k})

\* len(long_files)
LongFiles(py) == BagCount(py, {k \in PyKinds : IsLong(k)})

SizeKinds ==
    [size : {1, 100 * MiB - 2, 100 * MiB - 1, 400 * MiB}, sizable : BOOLEAN]

SizeLists == UNION {[1..n -> SizeKinds] : n \in 0..MaxSizeFiles}

\* total_size after the walk: the sizes that could be read, added up.
RECURSIVE TotalSize(_)
TotalSize(files) ==
    IF files = <<>> THEN 0
    ELSE (IF Head(files).sizable THEN Head(files).size ELSE 0)
             + TotalSize(Tail(files))

\* What the checks make of a tree.  size_mb is total_size / (1024 * 1024); it
\* is compared with the whole numbers 100 and 500 only, and x < n for a whole
\* number n exactly when the whole part of x is below n.
Facts(tree) ==
    [readme     |-> AnyExists(tree.paths, ReadmeFiles),
     license    |-> AnyExists(tree.paths, LicenseFiles),
     long_files |-> LongFiles(tree.py),
     size_mb    |-> TotalSize(tree.sizes) \div MiB]

NoPyFiles == [k \in PyKinds |-> 0]

\* The trees of the check: every set of paths, every bag of .py files and
\* every list of sizes, each in a tree that has nothing else of note.
LogicTrees ==
    [paths : PathSets, py : {NoPyFiles}, sizes : {<<>>}]
        \cup [paths : {{"README.md", "LICENSE"}}, py : PyBags, sizes : {<<>>}]
        \cup [paths : {{}}, py : {NoPyFiles}, sizes : SizeLists]

ScoringMethodsWithoutLast ==
    <<"license_presence", "readme_presence", "repository_size">>

\* scoring_methods: the methods marked by @scoring_function, in the order of
\* dir(self), which is sorted by name.
ScoringMethods ==
    <<"license_presence", "readme_presence", "repository_size", "script_length">>

\* method(repo_path)
CallMethod(name, tree) == LogicAssess(Facts(tree))[name]

\* str(e) of an exception that escapes a check.
CheckErrors == {"check_error"}

LogicFrame ==
    UNCHANGED <<chunkVars, clientVars, runVars, assessVars, aggVars,
                discoverVars, mainVars, docVars>>

LogicStart ==
    /\ lg_pc = "loop"
    /\ lg_tree \in LogicTrees
    /\ lg_next = 1
    /\ lg_raised = {}
    /\ lg_results = EmptyMap

\* One iteration of the loop, the try branch: the check returns its result.
LogicCheckReturns ==
    /\ lg_pc = "loop"
    /\ lg_next <= Len(ScoringMethods)
    /\ LET name == ScoringMethods[lg_next]
       IN  lg_results' =
               Update(lg_results,
                      [k \in {name} |-> CallMethod(name, lg_tree)])
    /\ lg_next' = lg_next + 1
    /\ UNCHANGED <<lg_pc, lg_tree, lg_raised>>
    /\ LogicFrame

\* One iteration of the loop, the except branch: the check raises.
LogicCheckRaises ==
    /\ lg_pc = "loop"
    /\ lg_next <= Len(ScoringMethods)
    /\ \E e \in CheckErrors :
           LET name == ScoringMethods[lg_next]
           IN  /\ lg_results' =
                       Update(lg_results,
                              [k \in {name} |-> ErrorPlaceholder(e)])
               /\ lg_raised' = lg_raised \cup {name}
    /\ lg_next' = lg_next + 1
    /\ UNCHANGED <<lg_pc, lg_tree>>
    /\ LogicFrame

\* return results
LogicReturn ==
    /\ lg_pc = "loop"
    /\ lg_next > Len(ScoringMethods)
    /\ lg_pc' = "returned"
    /\ UNCHANGED <<lg_tree, lg_next, lg_raised, lg_results>>
    /\ LogicFrame

LogicInit ==
    /\ LogicStart
    /\ DiscoverIdle /\ MainIdle /\ DocIdle
    /\ AssessIdle /\ AggIdle
    /\ ChunkIdle /\ ClientIdle /\ RunIdle

LogicNext == LogicCheckReturns \/ LogicCheckRaises \/ LogicReturn

LogicSpec == LogicInit /\ [][LogicNext]_vars

\* --------------------------------------- claims about the logic validator

\* C26: the logic validator makes no oracle call, and what it returns has
\* exactly the four criteria license_presence, readme_presence,
\* repository_size and script_length; a check that raised is there as
\* {score: 0, error: reason} under its own id, and every other check was
\* still run and has its own result.
C26_FourCriteriaAlways ==
    /\ cl_pc = "idle"
    /\ lg_pc = "returned" =>
           /\ DOMAIN lg_results =
                  {"license_presence", "readme_presence", "repository_size",
                   "script_length"}
           /\ \A k \in DOMAIN lg_results :
                  IF k \in lg_raised
                  THEN lg_results[k] = [score |-> Num(0), error |-> "check_error"]
                  ELSE lg_results[k] = LogicAssess(Facts(lg_tree))[k]

C26_Witness ==
    /\ lg_pc = "returned"
    /\ lg_raised = {"readme_presence"}
    /\ lg_results["script_length"].score = Num(100)
    /\ "error" \in DOMAIN lg_results["readme_presence"]

\* Some path of the set is among the paths that exist.
OneOf(names, paths) == names \cap paths # {}

\* C27: readme_presence scores 100 when at least one of README.md,
\* README.rst, README.txt, README exists at the root and 0 otherwise;
\* license_presence scores 100 when at least one of LICENSE, LICENSE.txt,
\* LICENSE.md, LICENCE exists and 0 otherwise.
C27_PresenceBinary ==
    lg_pc = "returned" =>
        /\ "readme_presence" \notin lg_raised =>
               lg_results["readme_presence"].score =
                   IF OneOf({"README.md", "README.rst", "README.txt", "README"},
                            lg_tree.paths)
                   THEN Num(100) ELSE Num(0)
        /\ "license_presence" \notin lg_raised =>
               lg_results["license_presence"].score =
                   IF OneOf({"LICENSE", "LICENSE.txt", "LICENSE.md", "LICENCE"},
                            lg_tree.paths)
                   THEN Num(100) ELSE Num(0)

C27_Witness ==
    /\ lg_pc = "returned"
    /\ lg_raised = {}
    /\ lg_tree.paths = {"README", "docs/LICENSE"}
    /\ lg_results["readme_presence"].score = Num(100)
    /\ lg_results["license_presence"].score = Num(0)

\* The number of readable .py files of a tree with more than 500 lines.
OverLimit(tree) ==
    BagCount(tree.py, {k \in PyKinds : k.readable /\ k.lines >= 501})

\* max(0, 100 - 20 x count), as a table.
PenaltyTable == <<100, 80, 60, 40, 20, 0>>

\* C28: script_length scores max(0, 100 - 20 x count), count being the number
\* of readable .py files with more than 500 lines: 100 for count 0, never
\* negative, 0 for every count >= 5, and non-increasing in count.
C28_ScriptLengthPenalty ==
    /\ (lg_pc = "returned" /\ "script_length" \notin lg_raised) =>
           LET count == OverLimit(lg_tree)
               score == lg_results["script_length"].score
           IN  /\ score = Num(PenaltyTable[Min(count, 5) + 1])
               /\ score.num >= 0
               /\ count = 0 => score = Num(100)
               /\ count >= 5 => score = Num(0)
    /\ \A c \in 0..MaxLongFiles :
           ScriptLength([long_files |-> c + 1]).score.num
               <= ScriptLength([long_files |-> c]).score.num

C28_Witness ==
    /\ lg_pc = "returned"
    /\ "script_length" \notin lg_raised
    /\ OverLimit(lg_tree) = 6
    /\ \E k \in PyKinds : ~k.readable /\ k.lines > 500 /\ lg_tree.py[k] = 1
    /\ \E k \in PyKinds : k.readable /\ k.lines = 500 /\ lg_tree.py[k] = 1
    /\ lg_results["script_length"].score = Num(0)

\* The sizes of the files whose size can be read, added up.
RECURSIVE ReadableBytes(_)
ReadableBytes(files) ==
    IF Len(files) = 0 THEN 0
    ELSE ReadableBytes(SubSeq(files, 1, Len(files) - 1))
             + (IF files[Len(files)].sizable THEN files[Len(files)].size ELSE 0)

\* Totals around the two thresholds.
SampleTotals ==
    {0, 104857599, 104857600, 104857601, 524287999, 524288000, 524288001}

\* C29: repository_size scores 100 when the files add up to less than
\* 100 MiB, 70 from 100 MiB to less than 500 MiB, and 30 otherwise; the score
\* is non-increasing in the total, and a file whose size cannot be read is
\* skipped and the check still returns.
C29_RepositorySizeThresholds ==
    /\ (lg_pc = "returned" /\ "repository_size" \notin lg_raised) =>
           LET total == ReadableBytes(lg_tree.sizes)
           IN  lg_results["repository_size"].score =
                   IF total < 104857600 THEN Num(100)
                   ELSE IF total < 524288000 THEN Num(70)
                   ELSE Num(30)
    /\ \A a, b \in SampleTotals :
           a <= b =>
               RepositorySize([size_mb |-> b \div MiB]).score.num
                   <= RepositorySize([size_mb |-> a \div MiB]).score.num

C29_Witness ==
    /\ lg_pc = "returned"
    /\ "repository_size" \notin lg_raised
    /\ Len(lg_tree.sizes) = 3
    /\ ReadableBytes(lg_tree.sizes) = 104857600
    /\ \E i \in DOMAIN lg_tree.sizes : ~lg_tree.sizes[i].sizable
    /\ lg_results["repository_size"].score = Num(70)

\* -------------------------------------------------------------------- main
\* main (src/main.py).  The input of a run is the record of what main meets:
\*   mode    the command line: --setup, --test-config, no repository, or a
\*           repository;
\*   env     whether the .env file exists;
\*   config  what load_config gives in validate_configuration: it raises, no
\*           key, the placeholder key, or a key;
\*   health  what the test call of validate_api_key meets;
\*   run     how far the assessment gets: load_config raises, the analyzer
\*           cannot be built, the repository cannot be acquired, the scoring
\*           raises, or all is well.
\* mn_log is the list of what the run has done that the claims are about.

Modes == {"setup", "test_config", "no_repository", "repository"}

Configs == {"load_raises", "no_key", "placeholder_key", "key"}

\* The outcomes of client.chat.completions.create in validate_api_key.
HealthOutcomes == {"ok", "AuthenticationError", "APITimeoutError", "RateLimitError"}

AssessmentOutcomes == {"load_raises", "build_raises", "clone_raises", "scoring_raises", "ok"}

MainInputs ==
    [mode : Modes, env : BOOLEAN, config : Configs, health : HealthOutcomes,
     run : AssessmentOutcomes]

ValidateApiKeyAlwaysTrue(h) == TRUE

\* validate_api_key: True when the test call returns, False on any exception.
ValidateApiKey(h) == h = "ok"

\* Whether validate_configuration gets as far as the test call.
ReachesHealthCheck(in) == in.config = "key"

\* validate_configuration
ValidateConfiguration(in) == ReachesHealthCheck(in) /\ ValidateApiKey(in.health)

\* sys.exit(n), or the return of main (status 0).
Exit(n) == [code |-> n]

MainFrame ==
    UNCHANGED <<chunkVars, clientVars, runVars, assessVars, aggVars,
                discoverVars, logicVars, docVars>>

MainStart ==
    /\ mn_pc = "args"
    /\ mn_in \in MainInputs
    /\ mn_status = NoValue
    /\ mn_log = <<>>

\* The command line: --setup, --test-config, no repository, a repository.
MainArgs ==
    /\ mn_pc = "args"
    /\ CASE mn_in.mode = "setup" ->
                mn_pc' = "exited" /\ mn_status' = Exit(0)
         [] mn_in.mode = "test_config" ->
                mn_pc' = "validate" /\ UNCHANGED mn_status
         [] mn_in.mode = "no_repository" ->
                mn_pc' = "exited" /\ mn_status' = Exit(1)
         [] mn_in.mode = "repository" ->
                mn_pc' = "env" /\ UNCHANGED mn_status
    /\ UNCHANGED <<mn_in, mn_log>>
    /\ MainFrame

\* if not setup_environment(): sys.exit(1)
MainEnv ==
    /\ mn_pc = "env"
    /\ IF mn_in.env
       THEN mn_pc' = "validate" /\ UNCHANGED mn_status
       ELSE mn_pc' = "exited" /\ mn_status' = Exit(1)
    /\ UNCHANGED <<mn_in, mn_log>>
    /\ MainFrame

\* validate_configuration(): the test call is made when there is a key.
MainValidate ==
    /\ mn_pc = "validate"
    /\ mn_log' = IF ReachesHealthCheck(mn_in)
                 THEN Append(mn_log,
                             IF mn_in.health = "ok" THEN "health_ok"
                             ELSE "health_failed")
                 ELSE mn_log
    /\ mn_pc' = IF ValidateConfiguration(mn_in) THEN "valid" ELSE "invalid"
    /\ UNCHANGED <<mn_in, mn_status>>
    /\ MainFrame

\* validate_configuration() was False: sys.exit(1) in both modes.
MainInvalid ==
    /\ mn_pc = "invalid"
    /\ mn_pc' = "exited"
    /\ mn_status' = Exit(1)
    /\ UNCHANGED <<mn_in, mn_log>>
    /\ MainFrame

\* validate_configuration() was True: --test-config returns, a repository
\* goes on to the assessment.
MainValid ==
    /\ mn_pc = "valid"
    /\ IF mn_in.mode = "test_config"
       THEN mn_pc' = "exited" /\ mn_status' = Exit(0)
       ELSE mn_pc' = "build" /\ UNCHANGED mn_status
    /\ UNCHANGED <<mn_in, mn_log>>
    /\ MainFrame

\* load_config(args.config) and RepositoryAnalyzer(config)
MainBuild ==
    /\ mn_pc = "build"
    /\ IF mn_in.run \in {"load_raises", "build_raises"}
       THEN mn_pc' = "exited" /\ mn_status' = Exit(1) /\ UNCHANGED mn_log
       ELSE /\ mn_pc' = "acquire"
            /\ mn_log' = Append(mn_log, "analyzer_built")
            /\ UNCHANGED mn_status
    /\ UNCHANGED mn_in
    /\ MainFrame

\* analyzer.assess_repository: clone_repository
MainAcquire ==
    /\ mn_pc = "acquire"
    /\ mn_log' = Append(mn_log, "acquire")
    /\ IF mn_in.run = "clone_raises"
       THEN mn_pc' = "exited" /\ mn_status' = Exit(1)
       ELSE mn_pc' = "score" /\ UNCHANGED mn_status
    /\ UNCHANGED mn_in
    /\ MainFrame

\* analyzer.assess_repository: the three strategies, then the reports
MainScore ==
    /\ mn_pc = "score"
    /\ mn_log' = Append(mn_log, "scoring")
    /\ mn_pc' = "exited"
    /\ mn_status' = IF mn_in.run = "scoring_raises" THEN Exit(1) ELSE Exit(0)
    /\ UNCHANGED mn_in
    /\ MainFrame

MainInit ==
    /\ MainStart
    /\ DiscoverIdle /\ LogicIdle /\ DocIdle
    /\ AssessIdle /\ AggIdle
    /\ ChunkIdle /\ ClientIdle /\ RunIdle

MainNext ==
    \/ MainArgs
    \/ MainEnv
    \/ MainValidate
    \/ MainInvalid
    \/ MainValid
    \/ MainBuild
    \/ MainAcquire
    \/ MainScore

MainSpec == MainInit /\ [][MainNext]_vars

\* ------------------------------------------------------- claims about main

\* What the run has done so far.
Done(event) == \E i \in DOMAIN mn_log : mn_log[i] = event

\* C30: once the startup health check has failed (validate_api_key returned
\* False, whatever the exception of the test call), the run can only end with
\* a failure status: the analyzer is never built, the repository is never
\* acquired and no scoring call is made.
C30_FailedHealthCheckAborts ==
    Done("health_failed") =>
        /\ mn_pc \in {"invalid", "exited"}
        /\ mn_pc = "exited" => mn_status = [code |-> 1]
        /\ ~Done("analyzer_built")
        /\ ~Done("acquire")
        /\ ~Done("scoring")

C30_Witness ==
    /\ mn_pc = "exited"
    /\ mn_in.mode = "repository"
    /\ mn_in.health = "APITimeoutError"
    /\ mn_in.run = "ok"
    /\ Done("health_failed")
    /\ mn_status = [code |-> 1]

\* ------------------------------------------------------ document processor
\* DocumentProcessor.chunk_text (src/utils/document_processor.py:157-189).  A
\* text is a sequence of characters; the character at offset i is text[i + 1].
\* A chunk is kept with the offset it was cut at, so that the offsets it holds
\* are known: [at |-> start, chars |-> text[start:best_break]].

\* Longest text chunk_text is run on.
MaxDocLen == 4

\* Largest chunk_size chunk_text is run with.
MaxChunkSize == 3

\* Largest overlap chunk_text is run with.
MaxOverlap == 2

\* The characters of the texts: a letter, the two whitespace characters and
\* the full stop of the break strings.
DocAlphabet == {"a", " ", "\n", "."}

DocTexts == UNION {[1..n -> DocAlphabet] : n \in 0..MaxDocLen}

\* break_chars
BreakChars ==
    <<<<"\n", "\n">>, <<"\n">>, <<".", " ">>, <<"!", " ">>, <<"?", " ">>,
      <<";", " ">>, <<",", " ">>>>

\* text.rfind(sub, start, end): the highest offset in [start, end - len(sub)]
\* at which sub occurs, or -1.
RFind(t, sub, pos, end) ==
    LET lo == PyIndex(pos, Len(t))
        hi == PyIndex(end, Len(t))
        found == {i \in lo..(hi - Len(sub)) : SubSeq(t, i + 1, i + Len(sub)) = sub}
    IN  IF found = {} THEN -1
        ELSE CHOOSE i \in found : \A j \in found : j <= i

\* The loop over break_chars from position k on: the end of the first break
\* string that occurs after start, or end when none does.
RECURSIVE BreakFrom(_, _, _, _)
BreakFrom(k, t, pos, end) ==
    IF k > Len(BreakChars) THEN end
    ELSE LET last_break == RFind(t, BreakChars[k], pos, end)
         IN  IF last_break > pos
             THEN last_break + Len(BreakChars[k])
             ELSE BreakFrom(k + 1, t, pos, end)

\* best_break
BestBreak(t, pos, end) == BreakFrom(1, t, pos, end)

MoveStartAlwaysOverlap(best_break, overlap, pos) == best_break - overlap

\* start = best_break - overlap if best_break - overlap > start else best_break
MoveStart(best_break, overlap, pos) ==
    IF best_break - overlap > pos THEN best_break - overlap ELSE best_break

\* A chunk cut at offset start.
DocChunk(t, pos, end) == [at |-> pos, chars |-> PySlice(t, pos, end)]

\* [chunk for chunk in chunks if chunk.strip()]
NonBlank(c) == Strip(c.chars) # <<>>

\* The list a call returns.
ReturnedList(cs) == [chunks |-> cs]

DocFrame ==
    UNCHANGED <<chunkVars, clientVars, runVars, assessVars, aggVars,
                discoverVars, logicVars, mainVars>>

DocStart ==
    /\ dp_pc = "call"
    /\ dp_text \in DocTexts
    /\ dp_chunk_size \in 1..MaxChunkSize
    /\ dp_overlap \in 0..MaxOverlap
    /\ dp_start = 0
    /\ dp_chunks = <<>>
    /\ dp_value = NoValue

\* if not text or len(text) <= chunk_size: return [text] if text else []
DocCall ==
    /\ dp_pc = "call"
    /\ IF dp_text = <<>> \/ Len(dp_text) <= dp_chunk_size
       THEN /\ dp_value' =
                   IF dp_text # <<>>
                   THEN ReturnedList(<<DocChunk(dp_text, 0, Len(dp_text))>>)
                   ELSE ReturnedList(<<>>)
            /\ dp_pc' = "returned"
       ELSE /\ dp_pc' = "test"
            /\ UNCHANGED dp_value
    /\ UNCHANGED <<dp_text, dp_chunk_size, dp_overlap, dp_start, dp_chunks>>
    /\ DocFrame

\* while start < len(text):
DocTest ==
    /\ dp_pc = "test"
    /\ dp_pc' = IF dp_start < Len(dp_text) THEN "body" ELSE "filter"
    /\ UNCHANGED <<dp_text, dp_chunk_size, dp_overlap, dp_start, dp_chunks,
                   dp_value>>
    /\ DocFrame

\* One iteration: the last chunk and break, or a chunk up to best_break and
\* the move of start.
DocBody ==
    /\ dp_pc = "body"
    /\ LET end == dp_start + dp_chunk_size
       IN  IF end >= Len(dp_text)
           THEN /\ dp_chunks' =
                       Append(dp_chunks,
                              DocChunk(dp_text, dp_start, Len(dp_text)))
                /\ dp_pc' = "filter"
                /\ UNCHANGED dp_start
           ELSE LET best_break == BestBreak(dp_text, dp_start, end)
                IN  /\ dp_chunks' =
                           Append(dp_chunks,
                                  DocChunk(dp_text, dp_start, best_break))
                    /\ dp_start' = MoveStart(best_break, dp_overlap, dp_start)
                    /\ dp_pc' = "test"
    /\ UNCHANGED <<dp_text, dp_chunk_size, dp_overlap, dp_value>>
    /\ DocFrame

\* return [chunk for chunk in chunks if chunk.strip()]
DocReturn ==
    /\ dp_pc = "filter"
    /\ dp_value' = ReturnedList(SelectSeq(dp_chunks, NonBlank))
    /\ dp_pc' = "returned"
    /\ UNCHANGED <<dp_text, dp_chunk_size, dp_overlap, dp_start, dp_chunks>>
    /\ DocFrame

DocInit ==
    /\ DocStart
    /\ DiscoverIdle /\ LogicIdle /\ MainIdle
    /\ AssessIdle /\ AggIdle
    /\ ChunkIdle /\ ClientIdle /\ RunIdle

DocNext == DocCall \/ DocTest \/ DocBody \/ DocReturn

DocSpec == DocInit /\ [][DocNext]_vars

\* The call is run by one thread, which keeps taking steps.
FairDocSpec == DocSpec /\ WF_vars(DocNext)

\* ------------------------------------- claims about the document processor

\* C35: for every text, every chunk_size >= 1 and every overlap >= 0
\* chunk_text terminates, and its start offset strictly increases on every
\* loop iteration that goes on: the overlap is applied only when
\* best_break - overlap is greater than the current start.
C35_ChunkTextTerminates ==
    /\ <>(dp_pc = "returned")
    /\ [][(dp_pc = "body" /\ dp_pc' = "test") => dp_start' > dp_start]_vars

\* A returned call with an overlap as large as the chunk size: the overlap
\* was dropped at every move of start, each chunk starting where the chunk
\* before it ended.
C35_Witness ==
    /\ dp_pc = "returned"
    /\ Len(dp_chunks) >= 3
    /\ dp_overlap >= dp_chunk_size
    /\ \A k \in 1..(Len(dp_chunks) - 1) :
           dp_chunks[k + 1].at = dp_chunks[k].at + Len(dp_chunks[k].chars)

\* The offsets of the text that a chunk cut at c.at holds.
DocOffsets(c) == {c.at + i - 1 : i \in DOMAIN c.chars}

\* C36: for every non-empty text the chunks chunk_text returns form a cover:
\* every offset of the text lies in at least one returned chunk.
C36_ReturnedChunksCoverText ==
    (dp_pc = "returned" /\ dp_text # <<>>) =>
        \A off \in 0..(Len(dp_text) - 1) :
            \E k \in DOMAIN dp_value.chunks :
                off \in DocOffsets(dp_value.chunks[k])

====
